---- MODULE Spec2Model ----
(***************************************************************************)
(* A model of orkestra: the selection strategies of registry/strategies.py *)
(* over the catalog of registry/models.py, MultiProvider of                *)
(* multi_provider.py, the router artifact cache of router/cache.py, the    *)
(* lazily initialised embedder of router/embedder.py, KNNRouter of         *)
(* router/knn.py, calculate_cost and get_models of registry/models.py,     *)
(* and Provider of provider.py with the event buses of _events.py and the  *)
(* middleware chain of _middleware.py.                                     *)
(*                                                                         *)
(* Prices are Python floats in dollars per million tokens; every catalog   *)
(* price is a multiple of 0.05, so the model keeps them as integers in     *)
(* hundredths of a dollar.  The nine sums input_price + output_price are   *)
(* pairwise distinct and far apart, so float rounding neither creates nor  *)
(* removes an order or a tie between two of them.  The context_window of   *)
(* a catalog entry is read by none of the code modelled and is left out.   *)
(* calculate_cost is the one place where the rounding of float arithmetic  *)
(* is modelled.                                                            *)
(***************************************************************************)
EXTENDS Integers, Sequences, FiniteSets, TLC

VARIABLES
    \* --- strategies applied to a selections mapping
    selections,     \* dict[Provider, str] in insertion order: Seq of [provider, model]
    outcome,        \* per strategy, what the function did: returned a pair, or raised
    \* --- one MultiProvider and one call of it
    mpProviders,    \* self._providers
    mpc,            \* where the constructor or the call stands
    mcall,          \* the call: [kind, strategy, prompt]
    midx,           \* the index of the routing loop
    msel,           \* the selections dict the call builds
    mlabel,         \* per provider name, the label its artifact gives the prompt ("" before)
    routeLog,       \* the router.route calls made, in order
    backendLog,     \* the backend call/stream invocations made, in order
    mresult,        \* what the call did: returned a response, or raised
    \* --- the router cache directory and the callers of get_router_path
    fs,             \* CACHE_DIR: whether it exists, its two entries, the files' bytes
    fallbackExists, \* whether _LOCAL_FALLBACK[provider] exists
    caller,         \* per caller of get_router_path: where it stands and its locals
    \* --- router/embedder.py: the module globals and the threads that embed or route
    _tokenizer,     \* the global _tokenizer: None or the tokenizer object
    _model,         \* the global _model: None or the model object
    _device,        \* the global _device: None or the torch device
    constructed,    \* how many tokenizers and models from_pretrained has constructed, and
                    \* how many from_pretrained calls raised
    embedCalls,     \* how many get_longformer_embedding calls were started
    thr,            \* per thread: where its call stands and its locals
    embedLog,       \* the embeddings computed, in order: [text, vec]
    \* --- router/knn.py: the KNNRouter instances and what they did
    routers,        \* per constructing caller: the KNNRouter it built (_knn, _provider)
    pickleLoads,    \* per provider name, how many times pickle.load read its artifact
    routed,         \* the route() calls returned, in order: [router, query, model]
    \* --- registry/models.py: the catalog and the calls of its functions
    catalog,        \* the module global PROVIDER_MODELS, a dict of dicts
    modelsCalls,    \* the get_models calls made, in order: [provider, status, value]
    costCall,       \* the arguments of the calculate_cost calls made, in order
    costResult,     \* what each calculate_cost call returned or raised
    \* --- provider.py, _events.py, _middleware.py: Provider objects and one call
    bus,            \* per event bus (the global one, each Provider's own), per event name,
                    \* the handlers registered, in order: EventBus._handlers
    provs,          \* the Provider objects as their constructors left them
    chain,          \* the middleware lists: _global_middlewares and each Provider's
                    \* _middlewares
    pcall,          \* the chat or stream_text call: its arguments, where it stands, its
                    \* MiddlewareData and what it returned or raised
    plog            \* what the call did, in order: events emitted, handlers and
                    \* middlewares run, router and backend calls, chunks yielded

stratVars == <<selections, outcome>>

multiVars == <<mpProviders, mpc, mcall, midx, msel, mlabel, routeLog, backendLog, mresult>>

cacheVars == <<fs, fallbackExists, caller>>

embedVars == <<_tokenizer, _model, _device, constructed, embedCalls, thr, embedLog>>

knnVars == <<routers, pickleLoads, routed>>

costVars == <<catalog, modelsCalls, costCall, costResult>>

provVars == <<provs, bus, chain, pcall, plog>>

vars == <<stratVars, multiVars, cacheVars, embedVars, knnVars, costVars, provVars>>

(***************************************************************************)
(* registry/models.py                                                      *)
(***************************************************************************)

\* a catalog in which one model has a tier TIER_RANK does not know
ProviderModelsUnknownTier ==
    [google |->
        ("gemini-2.5-flash-lite"  :> [input_price |-> 10,  output_price |-> 40,   tier |-> "budget"]
      @@ "gemini-3-flash-preview" :> [input_price |-> 50,  output_price |-> 300,  tier |-> "balanced"]
      @@ "gemini-3-pro-preview"   :> [input_price |-> 200, output_price |-> 1200, tier |-> "premium"]
      @@ "gemini-3-ultra"         :> [input_price |-> 400, output_price |-> 2400, tier |-> "ultra"]),
     anthropic |->
        ("claude-haiku-4"    :> [input_price |-> 80,   output_price |-> 400,  tier |-> "budget"]
      @@ "claude-sonnet-4-5" :> [input_price |-> 300,  output_price |-> 1500, tier |-> "balanced"]
      @@ "claude-opus-4"     :> [input_price |-> 1500, output_price |-> 7500, tier |-> "premium"]),
     openai |->
        ("gpt-4o-mini" :> [input_price |-> 15,   output_price |-> 60,   tier |-> "budget"]
      @@ "gpt-4o"      :> [input_price |-> 250,  output_price |-> 1000, tier |-> "balanced"]
      @@ "o3"          :> [input_price |-> 1000, output_price |-> 4000, tier |-> "premium"])]

PROVIDER_MODELS ==
    [google |->
        ("gemini-2.5-flash-lite"  :> [input_price |-> 10,  output_price |-> 40,   tier |-> "budget"]
      @@ "gemini-3-flash-preview" :> [input_price |-> 50,  output_price |-> 300,  tier |-> "balanced"]
      @@ "gemini-3-pro-preview"   :> [input_price |-> 200, output_price |-> 1200, tier |-> "premium"]),
     anthropic |->
        ("claude-haiku-4"    :> [input_price |-> 80,   output_price |-> 400,  tier |-> "budget"]
      @@ "claude-sonnet-4-5" :> [input_price |-> 300,  output_price |-> 1500, tier |-> "balanced"]
      @@ "claude-opus-4"     :> [input_price |-> 1500, output_price |-> 7500, tier |-> "premium"]),
     openai |->
        ("gpt-4o-mini" :> [input_price |-> 15,   output_price |-> 60,   tier |-> "budget"]
      @@ "gpt-4o"      :> [input_price |-> 250,  output_price |-> 1000, tier |-> "balanced"]
      @@ "o3"          :> [input_price |-> 1000, output_price |-> 4000, tier |-> "premium"])]

ProviderNames == DOMAIN PROVIDER_MODELS

ModelsOf(name) == DOMAIN PROVIDER_MODELS[name]

DEFAULT_BASE_MODELS ==
    [google |-> "gemini-3-pro-preview", anthropic |-> "claude-opus-4", openai |-> "o3"]

DEFAULT_FALLBACK_MODELS ==
    [google |-> "gemini-3-flash-preview", anthropic |-> "claude-sonnet-4-5", openai |-> "gpt-4o"]

TIER_RANK == [budget |-> 0, balanced |-> 1, premium |-> 2]

\* tests/test_registry.py, test_all_tiers_are_valid: the check of the catalog's tiers,
\* assert info["tier"] in TIER_RANK for every model of every provider
test_all_tiers_are_valid(models) ==
    IF \A p \in DOMAIN models : \A m \in DOMAIN models[p] :
           models[p][m].tier \in DOMAIN TIER_RANK
    THEN "passed"
    ELSE "AssertionError"

\* TIER_RANK.get(tier, 0)
TierRankGet(tier) == IF tier \in DOMAIN TIER_RANK THEN TIER_RANK[tier] ELSE 0

(***************************************************************************)
(* Provider objects.  Provider defines neither __eq__, __hash__ nor        *)
(* __lt__: two instances are equal only if they are the same object, and   *)
(* comparing two of them with < raises TypeError.  An instance is          *)
(* identified here by its constructor arguments (name, api_key,            *)
(* smart_routing); with smart_routing=False its _router is None.           *)
(***************************************************************************)

ApiKeys == {"k1", "k2"}

Providers == [name : ProviderNames, api_key : ApiKeys, smart_routing : BOOLEAN]

NoProvider == [name |-> "", api_key |-> "", smart_routing |-> FALSE]

(***************************************************************************)
(* registry/strategies.py                                                  *)
(***************************************************************************)

\* float("inf") and the finite floats
FloatInf == [inf |-> TRUE, v |-> 0]

Fin(n) == [inf |-> FALSE, v |-> n]

\* a < b on floats
FloatLt(a, b) == ~a.inf /\ (b.inf \/ a.v < b.v)

\* a proxy the docstring of cheapest speaks of: the input price alone
PriceInputOnly(name, model) == PROVIDER_MODELS[name][model].input_price

\* price = info["input_price"] + info["output_price"]
Price(name, model) ==
    PROVIDER_MODELS[name][model].input_price + PROVIDER_MODELS[name][model].output_price

Tier(name, model) == PROVIDER_MODELS[name][model].tier

NoPair == [provider |-> NoProvider, model |-> ""]

Returned(pair) == [status |-> "returned", provider |-> pair.provider,
                   model |-> pair.model, error |-> ""]

Raised(err) == [status |-> "raised", provider |-> NoProvider, model |-> "", error |-> err]

NoOutcome == [status |-> "none", provider |-> NoProvider, model |-> "", error |-> ""]

\* one iteration of cheapest's loop, with <= in place of <
CheapestStepLe(acc, entry) ==
    LET price == Fin(Price(entry.provider.name, entry.model))
    IN  IF FloatLt(price, acc.best_price) \/ price = acc.best_price
        THEN [best |-> entry, best_price |-> price]
        ELSE acc

\* one iteration of cheapest's loop
CheapestStep(acc, entry) ==
    LET price == Fin(Price(entry.provider.name, entry.model))
    IN  IF FloatLt(price, acc.best_price)
        THEN [best |-> entry, best_price |-> price]
        ELSE acc

RECURSIVE CheapestLoop(_, _)
CheapestLoop(acc, items) ==
    IF items = <<>> THEN acc
    ELSE CheapestLoop(CheapestStep(acc, Head(items)), Tail(items))

\* cheapest(providers, selections): best is None when the mapping is empty
cheapest(sel) ==
    Returned(CheapestLoop([best |-> NoPair, best_price |-> FloatInf], sel).best)

\* one iteration of smartest's loop that forgets the price among equal ranks
SmartestStepRankOnly(acc, entry) ==
    LET rank  == TierRankGet(Tier(entry.provider.name, entry.model))
        price == Fin(Price(entry.provider.name, entry.model))
    IN  IF rank > acc.best_rank
        THEN [best |-> entry, best_rank |-> rank, best_price |-> price]
        ELSE acc

\* one iteration of smartest's loop
SmartestStep(acc, entry) ==
    LET rank  == TierRankGet(Tier(entry.provider.name, entry.model))
        price == Fin(Price(entry.provider.name, entry.model))
    IN  IF rank > acc.best_rank \/ (rank = acc.best_rank /\ FloatLt(price, acc.best_price))
        THEN [best |-> entry, best_rank |-> rank, best_price |-> price]
        ELSE acc

RECURSIVE SmartestLoop(_, _)
SmartestLoop(acc, items) ==
    IF items = <<>> THEN acc
    ELSE SmartestLoop(SmartestStep(acc, Head(items)), Tail(items))

smartest(sel) ==
    Returned(SmartestLoop([best |-> NoPair, best_rank |-> 0 - 1, best_price |-> FloatInf],
                          sel).best)

(***************************************************************************)
(* balanced sorts tuples (price, provider, model).  Python compares two    *)
(* tuples at their first differing position: the prices if they differ,    *)
(* otherwise the two Provider objects (distinct keys of a dict are never   *)
(* equal), and Provider < Provider raises TypeError.  The model names are  *)
(* reached only when the providers are the same object, which two entries  *)
(* of one dict never are.                                                  *)
(***************************************************************************)
TupleLt(a, b) ==
    IF a.price # b.price THEN (IF a.price < b.price THEN "true" ELSE "false")
    ELSE IF a.provider # b.provider THEN "TypeError"
    ELSE "false"

\* list.sort() as an insertion sort over TupleLt; a comparison that raises ends it
RECURSIVE InsertSorted(_, _)
InsertSorted(sorted, e) ==
    IF sorted.err THEN sorted
    ELSE IF sorted.list = <<>> THEN [err |-> FALSE, list |-> <<e>>]
    ELSE LET c == TupleLt(e, Head(sorted.list))
         IN  IF c = "TypeError" THEN [err |-> TRUE, list |-> <<>>]
             ELSE IF c = "true" THEN [err |-> FALSE, list |-> <<e>> \o sorted.list]
             ELSE LET rest == InsertSorted([err |-> FALSE, list |-> Tail(sorted.list)], e)
                  IN  IF rest.err THEN rest
                      ELSE [err |-> FALSE, list |-> <<Head(sorted.list)>> \o rest.list]

RECURSIVE ListSort(_)
ListSort(list) ==
    IF list = <<>> THEN [err |-> FALSE, list |-> <<>>]
    ELSE InsertSorted(ListSort(SubSeq(list, 1, Len(list) - 1)), list[Len(list)])

OptionEntry(entry) ==
    [price |-> Price(entry.provider.name, entry.model),
     provider |-> entry.provider, model |-> entry.model]

AllOptions(sel) == [i \in 1..Len(sel) |-> OptionEntry(sel[i])]

BalancedOptions(sel) ==
    SelectSeq(AllOptions(sel), LAMBDA e : Tier(e.provider.name, e.model) = "balanced")

SortedFirst(options) ==
    LET s == ListSort(options)
    IN  IF s.err THEN Raised("TypeError")
        ELSE Returned([provider |-> s.list[1].provider, model |-> s.list[1].model])

balanced(sel) ==
    IF BalancedOptions(sel) # <<>> THEN SortedFirst(BalancedOptions(sel))
    ELSE IF AllOptions(sel) = <<>> THEN Raised("IndexError")
    ELSE SortedFirst(AllOptions(sel))

STRATEGIES == {"cheapest", "smartest", "balanced"}

\* STRATEGIES[name](providers, sel); a name that is no key raises KeyError
ApplyStrategyFn(name, sel) ==
    CASE name = "cheapest" -> cheapest(sel)
      [] name = "smartest" -> smartest(sel)
      [] name = "balanced" -> balanced(sel)
      [] OTHER -> Raised("KeyError")

(***************************************************************************)
(* router/cache.py: get_router_path and _download_router, for the files of *)
(* one manifest provider: dest = CACHE_DIR/router-<provider>.pkl and       *)
(* tmp = dest.with_suffix(".tmp"), a name all callers share.               *)
(*                                                                         *)
(* A file is an inode holding a sequence of blocks; a directory entry      *)
(* names an inode.  open(path, "wb") truncates the inode the path names,   *)
(* or creates one; a writer keeps writing to the inode it opened, at its   *)
(* own offset, whatever happens to the directory entry meanwhile, and      *)
(* rename moves the entry, not the bytes.  A block no writer has written   *)
(* yet that lies before a written one reads as zeros (0).                  *)
(***************************************************************************)

NumCallers == 2

NumBlocks == 2

Callers == 1..NumCallers

\* a caller holds at most one file open, and the directory has two entries
InodeIds == 1..(NumCallers + 2)

\* the artifact the manifest's digest was taken from
PublishedBytes == [i \in 1..NumBlocks |-> i]

\* what a corrupted or tampered download delivers
CorruptBytes == [i \in 1..NumBlocks |-> 0 - i]

\* the developer's copy under <repo>/routers/, which nothing verifies
FallbackBytes == [i \in 1..NumBlocks |-> 10 * i]

\* a copy under <repo>/routers/ that holds a classifier pickled before it was fitted
UnfittedBytes == [i \in 1..NumBlocks |-> 20 * i]

\* hashlib.sha256(bytes).hexdigest(): a digest that determines the bytes hashed
\* (no two contents of the model collide)
Sha256(bytes) == <<"sha256", Len(bytes), bytes>>

ROUTER_MANIFEST ==
    [google |-> [url |-> "http://imperativemachines.com/routers/router-google.pkl",
                 sha256 |-> Sha256(PublishedBytes),
                 filename |-> "router-google.pkl"]]

CacheProvider == "google"

\* the provider names callers pass: the one whose files are modelled, and one that
\* the manifest does not have
ProviderArgs == {CacheProvider, "nonexistent"}

NoResult == [status |-> "none", error |-> "", via |-> "", view |-> <<>>]

\* ctor: the call is the first statement of KNNRouter.__init__; consulted: the sources
\* the call has turned to so far, in order
IdleCaller ==
    [pc |-> "idle", provider |-> "", ctor |-> FALSE, consulted |-> <<>>, fd |-> 0,
     off |-> 0, payload |-> <<>>, error |-> "", ret |-> NoResult]

CacheIdle ==
    /\ fs = [dir |-> FALSE, tmp |-> 0, dest |-> 0, inode |-> [i \in InodeIds |-> <<>>]]
    /\ fallbackExists = FALSE
    /\ caller = [p \in Callers |-> IdleCaller]

(***************************************************************************)
(* router/embedder.py: the module globals _tokenizer, _model and _device   *)
(* start as None; importing the module constructs nothing.  A tokenizer    *)
(* or a model is an object that AutoTokenizer.from_pretrained or           *)
(* AutoModel.from_pretrained constructs; each construction makes a new     *)
(* object, numbered here in the order of construction.  from_pretrained    *)
(* hands the model back in evaluation mode.                                *)
(***************************************************************************)

NumThreads == 2

MaxEmbedCalls == 3

Threads == 1..NumThreads

None == [kind |-> "None"]

\* the machine has neither CUDA nor MPS
TorchDevice == "cpu"

\* the prompts embedded, and the ids the pretrained tokenizer gives their pieces
Queries == {"Hello", "Prove it"}

TokenIds == ("Hello" :> <<7>>) @@ ("Prove it" :> <<3, 5>>)

NoInputs == [input_ids |-> <<>>, attention_mask |-> <<>>]

NoVec == [kind |-> "None"]

IdleThread ==
    [pc |-> "idle", text |-> "", router |-> 0, device |-> "", inputs |-> NoInputs,
     ret |-> NoVec, error |-> ""]

EmbedIdle ==
    /\ _tokenizer = None
    /\ _model = None
    /\ _device = None
    /\ constructed = [tokenizer |-> 0, model |-> 0, failed |-> 0]
    /\ embedCalls = 0
    /\ thr = [t \in Threads |-> IdleThread]
    /\ embedLog = <<>>

(***************************************************************************)
(* router/knn.py: a KNNRouter holds the classifier pickle.load read from   *)
(* the path get_router_path returned, and its provider name.               *)
(***************************************************************************)

NoRouter == [kind |-> "None"]

KnnIdle ==
    /\ routers = [p \in Callers |-> NoRouter]
    /\ pickleLoads = [n \in ProviderArgs |-> 0]
    /\ routed = <<>>

CostIdle ==
    /\ catalog = PROVIDER_MODELS
    /\ modelsCalls = <<>>
    /\ costCall = <<>>
    /\ costResult = <<>>

\* _events.py: EventName
EventNames ==
    {"on_request", "on_chat", "on_stream", "on_route", "on_response", "on_chunk",
     "on_stream_complete"}

\* what the backend's call returns
BackendResult == [text |-> "Hello!", input_tokens |-> 10, output_tokens |-> 20]

\* the default_model argument of the constructor: omitted (None), empty, or a model
DefaultModelArgs == {"None", "", "claude-haiku-4"}

\* Provider(name, api_key, smart_routing, default_model): the object's attributes, or
\* the ValueError raised before any of them is set; _router is the KNNRouter built for
\* the provider or None, _backend what create_backend returned (known by what its call
\* returns), default_model the argument as it was given
ProviderInit(name, smart_routing, default_model) ==
    IF ~smart_routing /\ default_model # "None" /\ default_model = ""
    THEN [exc |-> "ValueError", name |-> name, smart_routing |-> smart_routing,
          default_model |-> default_model,
          _backend |-> [call |-> BackendResult],
          _base_model |-> "None", _router |-> "None", _default_model |-> "None"]
    ELSE [exc |-> "", name |-> name, smart_routing |-> smart_routing,
          default_model |-> default_model,
          _backend |-> [call |-> BackendResult],
          _base_model |-> IF name \in DOMAIN DEFAULT_BASE_MODELS
                          THEN DEFAULT_BASE_MODELS[name] ELSE "None",
          _router |-> IF smart_routing THEN "KNNRouter" ELSE "None",
          _default_model |->
              IF smart_routing THEN "None"
              ELSE IF default_model # "None" THEN default_model
              ELSE IF name \in DOMAIN DEFAULT_FALLBACK_MODELS
                   THEN DEFAULT_FALLBACK_MODELS[name] ELSE "None"]

\* the two providers of tests/test_provider_hooks.py: Provider("google", key) and
\* Provider("anthropic", key, smart_routing=False)
ProviderObjs ==
    [a |-> ProviderInit("google", TRUE, "None"),
     b |-> ProviderInit("anthropic", FALSE, "None")]

Insts == DOMAIN ProviderObjs

\* the event buses and the middleware lists: the global one and one per Provider
Buses == {"global"} \cup Insts

\* MiddlewareData(prompt, provider, model, max_tokens, temperature, event); a model
\* of "None" is Python's None, a response of None is no Response
MiddlewareData(prompt, provider, model, event) ==
    [prompt |-> prompt, provider |-> provider, model |-> model, event |-> event,
     response |-> None]

NoProvCall ==
    [kind |-> "none", inst |-> "", args |-> [prompt |-> "", model |-> "None"],
     status |-> "none", backendOk |-> TRUE, chunks |-> <<>>,
     data |-> MiddlewareData("", "", "None", ""), result |-> None, error |-> ""]

ProvIdle ==
    /\ provs = ProviderObjs
    /\ bus = [b \in Buses |-> [e \in EventNames |-> <<>>]]
    /\ chain = [b \in Buses |-> <<>>]
    /\ pcall = NoProvCall
    /\ plog = <<>>

(***************************************************************************)
(* The strategy functions applied to every selections mapping of at most   *)
(* MaxSelections providers, each routed to a model of its own catalog.     *)
(***************************************************************************)

MaxSelections == 3

\* a selection is the answer of a provider's router, so the provider has one
RoutedProviders == {p \in Providers : p.smart_routing}

SelectionEntries ==
    UNION {{[provider |-> p, model |-> m] : m \in ModelsOf(p.name)} : p \in RoutedProviders}

\* a dict has each key once
IsMapping(s) == \A i, j \in 1..Len(s) : s[i].provider = s[j].provider => i = j

SelectionMappings ==
    {s \in UNION {[1..n -> SelectionEntries] : n \in 1..MaxSelections} : IsMapping(s)}

NoCall == [kind |-> "none", strategy |-> "", prompt |-> ""]

MultiIdle ==
    /\ mpProviders = <<>>
    /\ mpc = "new"
    /\ mcall = NoCall
    /\ midx = 0
    /\ msel = <<>>
    /\ mlabel = [n \in ProviderNames |-> ""]
    /\ routeLog = <<>>
    /\ backendLog = <<>>
    /\ mresult = NoOutcome

InitStrategy ==
    /\ selections \in SelectionMappings
    /\ outcome = [s \in STRATEGIES |-> NoOutcome]
    /\ MultiIdle
    /\ CacheIdle
    /\ EmbedIdle
    /\ KnnIdle
    /\ CostIdle
    /\ ProvIdle

\* strategy_fn(self._providers, selections) for one of the three functions
Apply(s) ==
    /\ outcome[s].status = "none"
    /\ outcome' = [outcome EXCEPT ![s] = ApplyStrategyFn(s, selections)]
    /\ UNCHANGED <<selections, multiVars, cacheVars, embedVars, knnVars, costVars, provVars>>

ApplyCheapest == Apply("cheapest")

ApplySmartest == Apply("smartest")

ApplyBalanced == Apply("balanced")

NextStrategy == ApplyCheapest \/ ApplySmartest \/ ApplyBalanced

SpecStrategy == InitStrategy /\ [][NextStrategy]_vars

(***************************************************************************)
(* Properties of the strategies.  The prices, ranks and name order used    *)
(* to state them are read from the catalog directly.                       *)
(***************************************************************************)

Candidates == {selections[i] : i \in 1..Len(selections)}

SumPrice(e) ==
    PROVIDER_MODELS[e.provider.name][e.model].input_price
        + PROVIDER_MODELS[e.provider.name][e.model].output_price

RankOf(e) == TIER_RANK[PROVIDER_MODELS[e.provider.name][e.model].tier]

IsBalancedTier(e) == PROVIDER_MODELS[e.provider.name][e.model].tier = "balanced"

Winner(s) == [provider |-> outcome[s].provider, model |-> outcome[s].model]

Applied(s) == outcome[s].status # "none"

ReturnedEntry(s) == outcome[s].status = "returned" /\ Winner(s) \in Candidates

IndexOf(e) == CHOOSE i \in 1..Len(selections) : selections[i] = e

\* the candidates balanced chooses among: the balanced-tier ones if there are any
BalancedPool ==
    IF \E e \in Candidates : IsBalancedTier(e)
    THEN {e \in Candidates : IsBalancedTier(e)}
    ELSE Candidates

C2_SmartestTopRankThenPrice ==
    Applied("smartest") =>
        /\ ReturnedEntry("smartest")
        /\ \A e \in Candidates : RankOf(Winner("smartest")) >= RankOf(e)
        /\ \A e \in Candidates :
              RankOf(e) = RankOf(Winner("smartest"))
                  => SumPrice(Winner("smartest")) <= SumPrice(e)

\* two candidates of the top rank with different prices, the dearer one first, and a
\* cheaper candidate of a lower rank
C2_Witness ==
    /\ Applied("smartest")
    /\ Len(selections) = 3
    /\ Winner("smartest") = selections[3]
    /\ RankOf(selections[1]) = RankOf(selections[3])
    /\ SumPrice(selections[1]) > SumPrice(selections[3])
    /\ RankOf(selections[2]) < RankOf(selections[3])
    /\ SumPrice(selections[2]) < SumPrice(selections[3])

\* C3: balanced returns a balanced-tier candidate of minimum price among the
\* balanced-tier candidates if there is one, and otherwise a candidate of minimum price
\* among all candidates.
C3_BalancedPrefersBalancedTier ==
    Applied("balanced") =>
        /\ ReturnedEntry("balanced")
        /\ Winner("balanced") \in BalancedPool
        /\ \A e \in BalancedPool : SumPrice(Winner("balanced")) <= SumPrice(e)

\* (provider name, model name) in lexicographic order, as a rank
LexRank ==
    [anthropic |-> ("claude-haiku-4" :> 1 @@ "claude-opus-4" :> 2 @@ "claude-sonnet-4-5" :> 3),
     google    |-> ("gemini-2.5-flash-lite" :> 4 @@ "gemini-3-flash-preview" :> 5
                    @@ "gemini-3-pro-preview" :> 6),
     openai    |-> ("gpt-4o" :> 7 @@ "gpt-4o-mini" :> 8 @@ "o3" :> 9)]

LexRankOf(e) == LexRank[e.provider.name][e.model]

CheapestInPool == {e \in BalancedPool : \A f \in BalancedPool : SumPrice(e) <= SumPrice(f)}

\* C4: when several candidates tie on price, balanced returns the one with the
\* lexicographically smallest provider name and then model name, also when the tied
\* candidates are two Provider instances of the same provider.
C4_BalancedTieBreakLexicographic ==
    (Applied("balanced") /\ Cardinality(CheapestInPool) > 1) =>
        /\ ReturnedEntry("balanced")
        /\ Winner("balanced") \in CheapestInPool
        /\ \A e \in CheapestInPool : LexRankOf(Winner("balanced")) <= LexRankOf(e)

\* C5: in cheapest, among the candidates tied at the minimum price, and in smartest,
\* among the candidates tied at the top rank and equal price, the winner is the one
\* that comes first in the iteration order of the mapping.
C5_FirstInIterationOrderWins ==
    /\ Applied("cheapest") =>
          /\ ReturnedEntry("cheapest")
          /\ \A j \in 1..Len(selections) :
                SumPrice(selections[j]) = SumPrice(Winner("cheapest"))
                    => IndexOf(Winner("cheapest")) <= j
    /\ Applied("smartest") =>
          /\ ReturnedEntry("smartest")
          /\ \A j \in 1..Len(selections) :
                (/\ RankOf(selections[j]) = RankOf(Winner("smartest"))
                 /\ SumPrice(selections[j]) = SumPrice(Winner("smartest")))
                    => IndexOf(Winner("smartest")) <= j

\* both strategies were applied to a mapping whose second and third candidates tie at
\* the winning price and rank, behind a first candidate that loses
C5_Witness ==
    /\ Applied("cheapest") /\ Applied("smartest")
    /\ Len(selections) = 3
    /\ Winner("cheapest") = selections[2]
    /\ Winner("smartest") = selections[2]
    /\ SumPrice(selections[3]) = SumPrice(selections[2])
    /\ RankOf(selections[3]) = RankOf(selections[2])
    /\ selections[3].provider # selections[2].provider

\* C7: on a non-empty mapping of catalog providers to models of their catalogs, each
\* of cheapest, smartest and balanced returns without raising, and returns an entry of
\* the mapping.
C7_StrategiesNeverRaise ==
    \A s \in STRATEGIES : Applied(s) => ReturnedEntry(s)

(***************************************************************************)
(* multi_provider.py: MultiProvider.__init__, chat and stream_text.        *)
(* stream_text is a generator function: calling it runs none of its body,  *)
(* which starts at the first next() on the generator.                      *)
(***************************************************************************)

MaxProviders == 2

Prompts == {"Hello", "Prove it"}

\* the strategy names a caller passes: the three registered ones and another
StrategyArgs == STRATEGIES \cup {"fastest"}

ProviderLists == UNION {[1..n -> Providers] : n \in 0..MaxProviders}

StratIdle ==
    /\ selections = <<>>
    /\ outcome = [s \in STRATEGIES |-> NoOutcome]

InitMulti ==
    /\ StratIdle
    /\ MultiIdle
    /\ CacheIdle
    /\ EmbedIdle
    /\ KnnIdle
    /\ CostIdle
    /\ ProvIdle

\* MultiProvider([]) raises ValueError
ConstructEmpty ==
    /\ mpc = "new"
    /\ mpc' = "ctor_raised"
    /\ mresult' = Raised("ValueError")
    /\ UNCHANGED <<mpProviders, mcall, midx, msel, mlabel, routeLog, backendLog>>
    /\ UNCHANGED <<stratVars, cacheVars, embedVars, knnVars, costVars, provVars>>

\* MultiProvider(providers) with a non-empty list
Construct ==
    /\ mpc = "new"
    /\ \E list \in ProviderLists :
          /\ list # <<>>
          /\ mpProviders' = list
    /\ mpc' = "idle"
    /\ UNCHANGED <<mcall, midx, msel, mlabel, routeLog, backendLog, mresult>>
    /\ UNCHANGED <<stratVars, cacheVars, embedVars, knnVars, costVars, provVars>>

\* multi.chat(prompt, strategy=...): the body starts at once
Chat ==
    /\ mpc = "idle"
    /\ \E st \in StrategyArgs, pr \in Prompts :
          mcall' = [kind |-> "chat", strategy |-> st, prompt |-> pr]
    /\ mpc' = "check"
    /\ UNCHANGED <<mpProviders, midx, msel, mlabel, routeLog, backendLog, mresult>>
    /\ UNCHANGED <<stratVars, cacheVars, embedVars, knnVars, costVars, provVars>>

\* multi.stream_text(prompt, strategy=...): a generator is created, nothing runs
StreamText ==
    /\ mpc = "idle"
    /\ \E st \in StrategyArgs, pr \in Prompts :
          mcall' = [kind |-> "stream", strategy |-> st, prompt |-> pr]
    /\ mpc' = "generator"
    /\ UNCHANGED <<mpProviders, midx, msel, mlabel, routeLog, backendLog, mresult>>
    /\ UNCHANGED <<stratVars, cacheVars, embedVars, knnVars, costVars, provVars>>

\* the first next() on the generator enters the body of stream_text
GeneratorNext ==
    /\ mpc = "generator"
    /\ mpc' = "check"
    /\ UNCHANGED <<mpProviders, mcall, midx, msel, mlabel, routeLog, backendLog, mresult>>
    /\ UNCHANGED <<stratVars, cacheVars, embedVars, knnVars, costVars, provVars>>

\* the strategy name is not checked before the routing loop
CheckStrategyOmitted ==
    /\ mpc = "check"
    /\ mpc' = "route"
    /\ midx' = 1
    /\ UNCHANGED <<mpProviders, mcall, msel, mlabel, routeLog, backendLog, mresult>>
    /\ UNCHANGED <<stratVars, cacheVars, embedVars, knnVars, costVars, provVars>>

\* if strategy not in STRATEGIES: raise ValueError
CheckStrategy ==
    /\ mpc = "check"
    /\ IF mcall.strategy \notin STRATEGIES
       THEN /\ mpc' = "raised"
            /\ mresult' = Raised("ValueError")
            /\ UNCHANGED midx
       ELSE /\ mpc' = "route"
            /\ midx' = 1
            /\ UNCHANGED mresult
    /\ UNCHANGED <<mpProviders, mcall, msel, mlabel, routeLog, backendLog>>
    /\ UNCHANGED <<stratVars, cacheVars, embedVars, knnVars, costVars, provVars>>

\* selections[provider] = model: a new key goes last, a known key keeps its place
DictSet(d, k, v) ==
    IF \E i \in 1..Len(d) : d[i].provider = k
    THEN [i \in 1..Len(d) |-> IF d[i].provider = k THEN [provider |-> k, model |-> v] ELSE d[i]]
    ELSE Append(d, [provider |-> k, model |-> v])

\* the loop is left after its first iteration
RouteNextFirstOnly ==
    /\ mpc = "route"
    /\ LET provider == mpProviders[midx]
       IN  IF ~provider.smart_routing
           THEN /\ mpc' = "raised"
                /\ mresult' = Raised("AttributeError")
                /\ UNCHANGED <<midx, msel, mlabel, routeLog>>
           ELSE \E model \in ModelsOf(provider.name) :
                /\ mlabel[provider.name] \in {"", model}
                /\ mlabel' = [mlabel EXCEPT ![provider.name] = model]
                /\ routeLog' = Append(routeLog, [provider |-> provider, prompt |-> mcall.prompt])
                /\ msel' = DictSet(msel, provider, model)
                /\ midx' = midx + 1
                /\ mpc' = "select"
                /\ UNCHANGED mresult
    /\ UNCHANGED <<mpProviders, mcall, backendLog>>
    /\ UNCHANGED <<stratVars, cacheVars, embedVars, knnVars, costVars, provVars>>

\* one iteration of: for provider in self._providers:
\*     model = provider._router.route(prompt); selections[provider] = model
\* The artifact of a provider name labels the prompt with one model of that provider,
\* the same for every Provider instance of that name.
RouteNext ==
    /\ mpc = "route"
    /\ LET provider == mpProviders[midx]
       IN  IF ~provider.smart_routing
           THEN \* provider._router is None
                /\ mpc' = "raised"
                /\ mresult' = Raised("AttributeError")
                /\ UNCHANGED <<midx, msel, mlabel, routeLog>>
           ELSE \E model \in ModelsOf(provider.name) :
                /\ mlabel[provider.name] \in {"", model}
                /\ mlabel' = [mlabel EXCEPT ![provider.name] = model]
                /\ routeLog' = Append(routeLog, [provider |-> provider, prompt |-> mcall.prompt])
                /\ msel' = DictSet(msel, provider, model)
                /\ midx' = midx + 1
                /\ mpc' = IF midx = Len(mpProviders) THEN "select" ELSE "route"
                /\ UNCHANGED mresult
    /\ UNCHANGED <<mpProviders, mcall, backendLog>>
    /\ UNCHANGED <<stratVars, cacheVars, embedVars, knnVars, costVars, provVars>>

\* winner, model = strategy_fn(self._providers, selections)
SelectWinner ==
    /\ mpc = "select"
    /\ mresult' = ApplyStrategyFn(mcall.strategy, msel)
    /\ mpc' = IF mresult'.status = "raised" THEN "raised" ELSE "backend"
    /\ UNCHANGED <<mpProviders, mcall, midx, msel, mlabel, routeLog, backendLog>>
    /\ UNCHANGED <<stratVars, cacheVars, embedVars, knnVars, costVars, provVars>>

\* Response(text=result["text"], model=model, provider=winner.name, ..., base_model=model):
\* the fields chat fills without arithmetic (the cost fields are those of calculate_cost)
MultiResponse(winner, model, result) ==
    [text |-> result.text, model |-> model, provider |-> winner.name,
     input_tokens |-> result.input_tokens, output_tokens |-> result.output_tokens,
     base_model |-> model]

\* the backend of the first provider of the list is called, whoever won
BackendInvokeFirstProvider ==
    /\ mpc = "backend"
    /\ backendLog' = Append(backendLog,
                            [op |-> IF mcall.kind = "chat" THEN "call" ELSE "stream",
                             provider |-> mpProviders[1], model |-> mresult.model,
                             prompt |-> mcall.prompt])
    /\ mpc' = "returned"
    /\ mresult' = IF mcall.kind = "chat"
                  THEN [status |-> "returned", provider |-> mresult.provider,
                        model |-> mresult.model, error |-> "",
                        response |-> MultiResponse(mpProviders[1], mresult.model,
                                                   BackendResult)]
                  ELSE mresult
    /\ UNCHANGED <<mpProviders, mcall, midx, msel, mlabel, routeLog>>
    /\ UNCHANGED <<stratVars, cacheVars, embedVars, knnVars, costVars, provVars>>

\* chat: result = winner._backend.call(model, prompt, ...), then the Response;
\* stream_text: yield from winner._backend.stream(model, prompt, ...)
BackendInvoke ==
    /\ mpc = "backend"
    /\ backendLog' = Append(backendLog,
                            [op |-> IF mcall.kind = "chat" THEN "call" ELSE "stream",
                             provider |-> mresult.provider, model |-> mresult.model,
                             prompt |-> mcall.prompt])
    /\ mpc' = "returned"
    /\ mresult' = IF mcall.kind = "chat"
                  THEN [status |-> "returned", provider |-> mresult.provider,
                        model |-> mresult.model, error |-> "",
                        response |-> MultiResponse(mresult.provider, mresult.model,
                                                   BackendResult)]
                  ELSE mresult
    /\ UNCHANGED <<mpProviders, mcall, midx, msel, mlabel, routeLog>>
    /\ UNCHANGED <<stratVars, cacheVars, embedVars, knnVars, costVars, provVars>>

\* the backend's API call fails and the exception leaves the call
BackendFail ==
    /\ mpc = "backend"
    /\ backendLog' = Append(backendLog,
                            [op |-> IF mcall.kind = "chat" THEN "call" ELSE "stream",
                             provider |-> mresult.provider, model |-> mresult.model,
                             prompt |-> mcall.prompt])
    /\ mresult' = Raised("BackendError")
    /\ mpc' = "raised"
    /\ UNCHANGED <<mpProviders, mcall, midx, msel, mlabel, routeLog>>
    /\ UNCHANGED <<stratVars, cacheVars, embedVars, knnVars, costVars, provVars>>

NextMulti ==
    \/ ConstructEmpty
    \/ Construct
    \/ Chat
    \/ StreamText
    \/ GeneratorNext
    \/ CheckStrategy
    \/ RouteNext
    \/ SelectWinner
    \/ BackendInvoke
    \/ BackendFail

SpecMulti == InitMulti /\ [][NextMulti]_vars

\* C6: a call of chat or stream_text with a strategy name outside the three raises
\* ValueError, selects nothing by default, and has invoked no router.route and no
\* backend call or stream when it raises.
C6_UnknownStrategyRejectedBeforeRouting ==
    (mcall.kind # "none" /\ mcall.strategy \notin STRATEGIES) =>
        /\ routeLog = <<>>
        /\ backendLog = <<>>
        /\ msel = <<>>
        /\ mpc \in {"check", "generator", "raised"}
        /\ mpc = "raised" => mresult = Raised("ValueError")

\* stream_text with an unknown strategy has raised at the first next(), on a
\* MultiProvider whose providers could all have been routed
C6_Witness ==
    /\ mcall.kind = "stream"
    /\ mcall.strategy = "fastest"
    /\ mpc = "raised"
    /\ mresult = Raised("ValueError")
    /\ Len(mpProviders) = 2
    /\ \A i \in 1..Len(mpProviders) : mpProviders[i].smart_routing

\* one route call per element of the provider list, in its order, with the prompt of
\* the call
ExpectedRoutes ==
    [i \in 1..Len(mpProviders) |-> [provider |-> mpProviders[i], prompt |-> mcall.prompt]]

\* the strategy function has been applied
StrategyApplied ==
    \/ mpc \in {"backend", "returned"}
    \/ mpc = "raised" /\ mresult.error \in {"TypeError", "IndexError", "KeyError", "BackendError"}

Referenced(f, c) == ({f.tmp, f.dest} \cup {c[p].fd : p \in Callers}) \ {0}

\* an inode nothing refers to is gone
Collect(f, c) ==
    [f EXCEPT !.inode = [i \in InodeIds |-> IF i \in Referenced(f, c) THEN f.inode[i] ELSE <<>>]]

FreshInode(f, c) ==
    CHOOSE i \in InodeIds \ Referenced(f, c) : \A j \in InodeIds \ Referenced(f, c) : i <= j

\* write block b at block offset k (from 1) of a file
WriteAt(content, k, b) ==
    IF k <= Len(content) THEN [content EXCEPT ![k] = b]
    ELSE content \o [i \in 1..(k - 1 - Len(content)) |-> 0] \o <<b>>

\* the bytes at a path, <<>> if the path does not exist
BytesAt(f, ino) == IF ino = 0 THEN <<>> ELSE f.inode[ino]

Active(p) == caller[p].pc \notin {"idle", "done", "interrupted"}

ThreadActive(t) == thr[t].pc \notin {"idle", "done", "raised"}

\* KNNRouter.__init__ has its path and has not read the file yet
Constructing(p) ==
    /\ caller[p].ctor
    /\ caller[p].pc = "done"
    /\ caller[p].ret.status = "returned"
    /\ routers[p] = NoRouter

\* nothing else of the process is under way
Quiet ==
    /\ \A u \in Threads : ~ThreadActive(u)
    /\ \A q \in Callers : ~Active(q) /\ ~Constructing(q)

SetCaller(p, rec) == caller' = [caller EXCEPT ![p] = rec]

Done(c, status, error, via, view) ==
    [c EXCEPT !.pc = "done", !.fd = 0,
              !.ret = [status |-> status, error |-> error, via |-> via, view |-> view]]

OtherVars == <<stratVars, multiVars, embedVars, knnVars, costVars, provVars>>

\* the cache directory is made before the provider name is looked up
CallMkdirFirst(p, serial, ctor) ==
    /\ caller[p].pc = "idle"
    /\ serial => Quiet
    /\ fs' = [fs EXCEPT !.dir = TRUE]
    /\ \E provider \in ProviderArgs :
          IF provider \notin DOMAIN ROUTER_MANIFEST
          THEN SetCaller(p, Done([caller[p] EXCEPT !.provider = provider, !.ctor = ctor],
                                 "raised", "ValueError", "", <<>>))
          ELSE SetCaller(p, [caller[p] EXCEPT !.provider = provider, !.ctor = ctor,
                                              !.pc = "g_exists"])
    /\ UNCHANGED <<fallbackExists, OtherVars>>

\* get_router_path(provider) up to the manifest lookup: an unknown provider raises
\* ValueError.  The call is made directly or by KNNRouter(provider).
Call(p, serial, ctor) ==
    /\ caller[p].pc = "idle"
    /\ serial => Quiet
    /\ \E provider \in ProviderArgs :
          IF provider \notin DOMAIN ROUTER_MANIFEST
          THEN SetCaller(p, Done([caller[p] EXCEPT !.provider = provider, !.ctor = ctor],
                                 "raised", "ValueError", "", <<>>))
          ELSE SetCaller(p, [caller[p] EXCEPT !.provider = provider, !.ctor = ctor,
                                              !.pc = "g_exists"])
    /\ UNCHANGED <<fs, fallbackExists, OtherVars>>

\* the local fallback is tried before the download
CheckCachedFallbackFirst(p) ==
    /\ caller[p].pc = "g_exists"
    /\ LET c == [caller[p] EXCEPT !.consulted = Append(@, "cache")]
       IN  IF fs.dest # 0
           THEN SetCaller(p, Done(c, "returned", "", "cache", BytesAt(fs, fs.dest)))
           ELSE SetCaller(p, [c EXCEPT !.pc = "fb_check"])
    /\ UNCHANGED <<fs, fallbackExists, OtherVars>>

\* if cached_path.exists(): return cached_path; else try the download if a URL is set
CheckCached(p) ==
    /\ caller[p].pc = "g_exists"
    /\ LET c == [caller[p] EXCEPT !.consulted = Append(@, "cache")]
       IN  IF fs.dest # 0
           THEN SetCaller(p, Done(c, "returned", "", "cache", BytesAt(fs, fs.dest)))
           ELSE IF ROUTER_MANIFEST[caller[p].provider].url # ""
           THEN SetCaller(p, [c EXCEPT !.pc = "dl_mkdir"])
           ELSE SetCaller(p, [c EXCEPT !.pc = "fb_check"])
    /\ UNCHANGED <<fs, fallbackExists, OtherVars>>

\* _download_router: CACHE_DIR.mkdir(parents=True, exist_ok=True)
DlMkdir(p) ==
    /\ caller[p].pc = "dl_mkdir"
    /\ fs' = [fs EXCEPT !.dir = TRUE]
    /\ SetCaller(p, [caller[p] EXCEPT !.pc = "dl_urlopen",
                                      !.consulted = Append(@, "remote")])
    /\ UNCHANGED <<fallbackExists, OtherVars>>

\* urlretrieve: urlopen(url) answers; the body it will deliver is the published
\* artifact or something else
DlUrlopen(p) ==
    /\ caller[p].pc = "dl_urlopen"
    /\ \E body \in {PublishedBytes, CorruptBytes} :
          SetCaller(p, [caller[p] EXCEPT !.pc = "dl_open", !.payload = body])
    /\ UNCHANGED <<fs, fallbackExists, OtherVars>>

\* open(path, "wb") on an entry of the cache directory
OpenWb(p, entry, nextpc) ==
    LET old == IF entry = "tmp" THEN fs.tmp ELSE fs.dest
        ino == IF old # 0 THEN old ELSE FreshInode(fs, caller)
        c2  == [caller EXCEPT ![p] = [@ EXCEPT !.pc = nextpc, !.fd = ino, !.off = 0]]
        f2  == [fs EXCEPT !.inode[ino] = <<>>,
                          !.tmp = IF entry = "tmp" THEN ino ELSE @,
                          !.dest = IF entry = "dest" THEN ino ELSE @]
    IN  /\ caller' = c2
        /\ fs' = Collect(f2, c2)

\* urlretrieve: tfp = open(filename, "wb")
DlOpenTmp(p) ==
    /\ caller[p].pc = "dl_open"
    /\ OpenWb(p, "tmp", "dl_write")
    /\ UNCHANGED <<fallbackExists, OtherVars>>

\* the next block of the open file is written
WriteBlock(p) ==
    /\ caller[p].off < Len(caller[p].payload)
    /\ fs' = [fs EXCEPT !.inode[caller[p].fd] =
                 WriteAt(@, caller[p].off + 1, caller[p].payload[caller[p].off + 1])]
    /\ SetCaller(p, [caller[p] EXCEPT !.off = @ + 1])

\* urlretrieve: block = fp.read(bs); tfp.write(block)
DlWrite(p) ==
    /\ caller[p].pc = "dl_write"
    /\ WriteBlock(p)
    /\ UNCHANGED <<fallbackExists, OtherVars>>

\* urlretrieve: the body is complete and the with-block closes tfp
DlClose(p) ==
    /\ caller[p].pc = "dl_write"
    /\ caller[p].off = Len(caller[p].payload)
    /\ LET c2 == [caller EXCEPT ![p] = [@ EXCEPT !.pc = "dl_verify", !.fd = 0]]
       IN  /\ caller' = c2
           /\ fs' = Collect(fs, c2)
    /\ UNCHANGED <<fallbackExists, OtherVars>>

\* urlretrieve raises (URLError, a reset connection, ContentTooShortError); an open
\* tfp is closed on the way out
DlNetError(p) ==
    /\ caller[p].pc \in {"dl_urlopen", "dl_write"}
    /\ LET c2 == [caller EXCEPT ![p] = [@ EXCEPT !.pc = "dl_except", !.fd = 0,
                                                   !.error = "URLError"]]
       IN  /\ caller' = c2
           /\ fs' = Collect(fs, c2)
    /\ UNCHANGED <<fallbackExists, OtherVars>>

\* the check is skipped: whatever was downloaded goes on to the rename
DlVerifySkipped(p) ==
    /\ caller[p].pc = "dl_verify"
    /\ SetCaller(p, [caller[p] EXCEPT !.pc = "dl_rename"])
    /\ UNCHANGED <<fs, fallbackExists, OtherVars>>

\* actual = hashlib.sha256(tmp.read_bytes()).hexdigest(); compared with the manifest's
DlVerify(p) ==
    /\ caller[p].pc = "dl_verify"
    /\ IF fs.tmp = 0
       THEN SetCaller(p, [caller[p] EXCEPT !.pc = "dl_except", !.error = "FileNotFoundError"])
       ELSE IF ROUTER_MANIFEST[caller[p].provider].sha256 # ""
               /\ Sha256(BytesAt(fs, fs.tmp)) # ROUTER_MANIFEST[caller[p].provider].sha256
       THEN SetCaller(p, [caller[p] EXCEPT !.pc = "dl_mismatch"])
       ELSE SetCaller(p, [caller[p] EXCEPT !.pc = "dl_rename"])
    /\ UNCHANGED <<fs, fallbackExists, OtherVars>>

\* on a mismatch: tmp.unlink(), then raise RuntimeError; unlink itself raises
\* FileNotFoundError if tmp is gone
DlMismatch(p) ==
    /\ caller[p].pc = "dl_mismatch"
    /\ IF fs.tmp = 0
       THEN /\ SetCaller(p, [caller[p] EXCEPT !.pc = "dl_except",
                                               !.error = "FileNotFoundError"])
            /\ UNCHANGED fs
       ELSE /\ SetCaller(p, [caller[p] EXCEPT !.pc = "dl_except", !.error = "RuntimeError"])
            /\ fs' = Collect([fs EXCEPT !.tmp = 0], caller)
    /\ UNCHANGED <<fallbackExists, OtherVars>>

\* tmp.rename(dest); return dest.  rename raises FileNotFoundError if tmp is gone
DlRename(p) ==
    /\ caller[p].pc = "dl_rename"
    /\ IF fs.tmp = 0
       THEN /\ SetCaller(p, [caller[p] EXCEPT !.pc = "dl_except",
                                               !.error = "FileNotFoundError"])
            /\ UNCHANGED fs
       ELSE /\ SetCaller(p, Done(caller[p], "returned", "", "download", BytesAt(fs, fs.tmp)))
            /\ fs' = Collect([fs EXCEPT !.dest = fs.tmp, !.tmp = 0], caller)
    /\ UNCHANGED <<fallbackExists, OtherVars>>

\* get_router_path lets the exception of _download_router through
DlExceptPropagates(p) ==
    /\ caller[p].pc = "dl_except"
    /\ fs' = Collect([fs EXCEPT !.tmp = 0], caller)
    /\ SetCaller(p, Done(caller[p], "raised", caller[p].error, "", <<>>))
    /\ UNCHANGED <<fallbackExists, OtherVars>>

\* except Exception: tmp.unlink(missing_ok=True); raise -- and get_router_path's
\* except Exception: pass, which goes on to the local fallback
DlExcept(p) ==
    /\ caller[p].pc = "dl_except"
    /\ fs' = Collect([fs EXCEPT !.tmp = 0], caller)
    /\ SetCaller(p, [caller[p] EXCEPT !.pc = "fb_check"])
    /\ UNCHANGED <<fallbackExists, OtherVars>>

\* fallback = _LOCAL_FALLBACK.get(provider); if fallback and fallback.exists(): ...
\* else raise FileNotFoundError
FbCheck(p) ==
    /\ caller[p].pc = "fb_check"
    /\ LET c == [caller[p] EXCEPT !.consulted = Append(@, "fallback")]
       IN  IF fallbackExists
           THEN SetCaller(p, [c EXCEPT !.pc = "fb_mkdir"])
           ELSE SetCaller(p, Done(c, "raised", "FileNotFoundError", "", <<>>))
    /\ UNCHANGED <<fs, fallbackExists, OtherVars>>

\* CACHE_DIR.mkdir(parents=True, exist_ok=True)
FbMkdir(p) ==
    /\ caller[p].pc = "fb_mkdir"
    /\ fs' = [fs EXCEPT !.dir = TRUE]
    /\ SetCaller(p, [caller[p] EXCEPT !.pc = "fb_open"])
    /\ UNCHANGED <<fallbackExists, OtherVars>>

\* shutil.copy2(fallback, cached_path): the destination is opened "wb" at the cache
\* path itself
FbOpenDest(p) ==
    /\ caller[p].pc = "fb_open"
    /\ LET old == fs.dest
           ino == IF old # 0 THEN old ELSE FreshInode(fs, caller)
           c2  == [caller EXCEPT ![p] = [@ EXCEPT !.pc = "fb_write", !.fd = ino, !.off = 0,
                                                  !.payload = FallbackBytes]]
           f2  == [fs EXCEPT !.inode[ino] = <<>>, !.dest = ino]
       IN  /\ caller' = c2
           /\ fs' = Collect(f2, c2)
    /\ UNCHANGED <<fallbackExists, OtherVars>>

\* shutil.copy2: the next block is copied
FbWrite(p) ==
    /\ caller[p].pc = "fb_write"
    /\ WriteBlock(p)
    /\ UNCHANGED <<fallbackExists, OtherVars>>

\* shutil.copy2 is through; return cached_path
FbClose(p) ==
    /\ caller[p].pc = "fb_write"
    /\ caller[p].off = Len(caller[p].payload)
    /\ LET c2 == [caller EXCEPT ![p] =
                     Done(@, "returned", "", "fallback", BytesAt(fs, fs.dest))]
       IN  /\ caller' = c2
           /\ fs' = Collect(fs, c2)
    /\ UNCHANGED <<fallbackExists, OtherVars>>

\* the caller is interrupted (KeyboardInterrupt, a killed process): no except
\* Exception clause runs, its open file is closed, what it left on disk stays
Interrupt(p) ==
    /\ Active(p)
    /\ LET c2 == [caller EXCEPT ![p] = [@ EXCEPT !.pc = "interrupted", !.fd = 0]]
       IN  /\ caller' = c2
           /\ fs' = Collect(fs, c2)
    /\ UNCHANGED <<fallbackExists, OtherVars>>

\* the steps of get_router_path up to and including _download_router
FetchStep(p) ==
    \/ CheckCached(p)
    \/ DlMkdir(p)
    \/ DlUrlopen(p)
    \/ DlOpenTmp(p)
    \/ DlWrite(p)
    \/ DlClose(p)
    \/ DlNetError(p)
    \/ DlVerify(p)
    \/ DlMismatch(p)
    \/ DlRename(p)
    \/ DlExcept(p)
    \/ FbCheck(p)
    \/ Interrupt(p)

\* the copy of the local fallback
FallbackStep(p) ==
    \/ FbMkdir(p)
    \/ FbOpenDest(p)
    \/ FbWrite(p)
    \/ FbClose(p)

CallSerial(p) == Call(p, TRUE, FALSE)

CallConcurrent(p) == Call(p, FALSE, FALSE)

InitEmptyCache ==
    /\ StratIdle
    /\ MultiIdle
    /\ EmbedIdle
    /\ KnnIdle
    /\ CostIdle
    /\ ProvIdle
    /\ fs = [dir |-> FALSE, tmp |-> 0, dest |-> 0, inode |-> [i \in InodeIds |-> <<>>]]
    /\ caller = [p \in Callers |-> IdleCaller]

\* calls of get_router_path one after the other, with or without a local fallback
InitSerial ==
    /\ InitEmptyCache
    /\ fallbackExists \in BOOLEAN

NextSerial == \E p \in Callers : CallSerial(p) \/ FetchStep(p) \/ FallbackStep(p)

SpecSerial == InitSerial /\ [][NextSerial]_vars

\* concurrent calls where no local fallback exists (an installed package)
InitFetch ==
    /\ InitEmptyCache
    /\ fallbackExists = FALSE

NextFetch == \E p \in Callers : CallConcurrent(p) \/ FetchStep(p)

SpecFetch == InitFetch /\ [][NextFetch]_vars

\* concurrent calls, with or without a local fallback
InitCache ==
    /\ InitEmptyCache
    /\ fallbackExists \in BOOLEAN

NextCache == \E p \in Callers : CallConcurrent(p) \/ FetchStep(p) \/ FallbackStep(p)

SpecCache == InitCache /\ [][NextCache]_vars

(***************************************************************************)
(* Properties of the router cache                                          *)
(***************************************************************************)

ManifestDigest == ROUTER_MANIFEST[CacheProvider].sha256

\* some block of the file has not been written
PartiallyWritten(bytes) == Len(bytes) < NumBlocks \/ \E i \in 1..Len(bytes) : bytes[i] = 0

\* C8: _download_router installs a file at the cache path only if the SHA-256 of the
\* bytes it downloaded equals the manifest digest, and then installs those bytes; on
\* a mismatch it raises with the temporary file removed and no file at the cache path.
C8_DownloadInstallsOnlyVerifiedBytes ==
    \A p \in Callers :
        /\ (caller[p].pc = "dl_rename"
              \/ (caller[p].ret.status = "returned" /\ caller[p].ret.via = "download"))
              => Sha256(caller[p].payload) = ManifestDigest
        /\ (caller[p].ret.status = "returned" /\ caller[p].ret.via = "download")
              => caller[p].ret.view = caller[p].payload
        /\ (caller[p].pc \in {"dl_mismatch", "dl_except", "fb_check"}
              /\ Len(caller[p].payload) = NumBlocks
              /\ Sha256(caller[p].payload) # ManifestDigest
              /\ caller[p].error # "URLError")
              => /\ fs.dest = 0
                 /\ caller[p].pc # "dl_mismatch" =>
                       (caller[p].error = "RuntimeError" /\ fs.tmp = 0)

\* one call downloaded bytes of another digest and raised, leaving neither file, and
\* another call installed a verified download
C8_Witness ==
    \E p, q \in Callers :
        /\ caller[p].ret.status = "raised"
        /\ caller[p].error = "RuntimeError"
        /\ caller[p].payload = CorruptBytes
        /\ caller[q].ret.status = "returned"
        /\ caller[q].ret.via = "download"
        /\ fs.dest # 0
        /\ fs.tmp = 0

\* C9: with concurrent (or interrupted) get_router_path calls for one provider on an
\* empty cache, the cache path never exists with content that is partially written or
\* whose SHA-256 differs from the manifest digest.
C9_CachePathAlwaysVerifiedArtifact ==
    fs.dest # 0 => Sha256(BytesAt(fs, fs.dest)) = ManifestDigest

\* C10: while one caller populates the cache, by the remote fetch or by the copy of
\* the local fallback, a concurrent get_router_path call never returns the path of a
\* file that is only partially written.
C10_ReaderNeverGetsPartialFile ==
    \A p \in Callers :
        (caller[p].ret.status = "returned" /\ caller[p].ret.via = "cache")
            => ~PartiallyWritten(caller[p].ret.view)

InManifest(p) == caller[p].provider \in DOMAIN ROUTER_MANIFEST

UrlOf(p) == ROUTER_MANIFEST[caller[p].provider].url

\* C13: get_router_path turns to its sources in the order cache, remote fetch, local
\* fallback: a call that finds the cache file returns it with no download and no
\* fallback access, and the local fallback is turned to only after the remote fetch
\* was unconfigured or failed.
C13_SourcesConsultedInOrder ==
    /\ [](\A p \in Callers :
            /\ caller[p].consulted \in
                  {<<>>, <<"cache">>, <<"cache", "remote">>, <<"cache", "fallback">>,
                   <<"cache", "remote", "fallback">>}
            /\ caller[p].ret.via = "cache" =>
                  (caller[p].consulted = <<"cache">> /\ caller[p].payload = <<>>)
            /\ (caller[p].pc \in {"fb_mkdir", "fb_open", "fb_write"}
                  \/ caller[p].ret.via = "fallback")
                  => caller[p].consulted[Len(caller[p].consulted)] = "fallback"
            /\ caller[p].consulted = <<"cache", "fallback">> => UrlOf(p) = ""
            /\ caller[p].consulted = <<"cache", "remote", "fallback">> =>
                  (caller[p].error # "" /\ caller[p].ret.via # "download"))
    /\ [][\A p \in Callers :
            (caller[p].pc = "g_exists" /\ fs.dest # 0 /\ caller'[p] # caller[p]) =>
                \/ caller'[p].pc = "interrupted"
                \/ /\ caller'[p].ret.status = "returned"
                   /\ caller'[p].ret.via = "cache"
                   /\ fs' = fs]_vars

\* one call turned to all three sources, its download having failed, and was served
\* the local fallback; the next call found the cache file and returned it
C13_Witness ==
    \E p, q \in Callers :
        /\ caller[p].ret.via = "fallback"
        /\ caller[p].consulted = <<"cache", "remote", "fallback">>
        /\ caller[p].error = "RuntimeError"
        /\ caller[q].ret.via = "cache"
        /\ caller[q].consulted = <<"cache">>

\* C14: for a provider of the manifest, get_router_path raises FileNotFoundError only
\* when the cache file is absent, the remote fetch was unconfigured or failed, and the
\* local fallback is absent; a failed remote fetch alone (network error, checksum
\* mismatch) is not raised: the local fallback is served.
C14_NotFoundOnlyWhenAllSourcesExhausted ==
    /\ [](\A p \in Callers :
            /\ (InManifest(p) /\ caller[p].ret.status = "raised") =>
                  (/\ caller[p].ret.error = "FileNotFoundError"
                   /\ ~fallbackExists
                   /\ caller[p].consulted[Len(caller[p].consulted)] = "fallback"
                   /\ (UrlOf(p) = "" \/ caller[p].error # ""))
            /\ (InManifest(p) /\ caller[p].pc = "done" /\ caller[p].error # ""
                  /\ fallbackExists) =>
                  (/\ caller[p].ret.status = "returned"
                   /\ caller[p].ret.via = "fallback"
                   /\ caller[p].ret.view = FallbackBytes))
    /\ [][\A p \in Callers :
            (caller[p].ret.status = "none" /\ caller'[p].ret.status = "raised"
               /\ InManifest(p)) => fs.dest = 0]_vars

\* with no local fallback, a call whose download failed its checksum raised
\* FileNotFoundError, and another call's download succeeded
C14_Witness ==
    \E p, q \in Callers :
        /\ ~fallbackExists
        /\ caller[p].ret.error = "FileNotFoundError"
        /\ caller[p].error = "RuntimeError"
        /\ caller[p].consulted = <<"cache", "remote", "fallback">>
        /\ caller[q].ret.via = "download"

(***************************************************************************)
(* router/embedder.py: _get_device, _init_model, get_longformer_embedding. *)
(* A thread is one execution context (a thread of a server, a worker of    *)
(* an executor); the steps of a call are the places where another thread   *)
(* can run in between.                                                     *)
(***************************************************************************)

SetThread(t, rec) == thr' = [thr EXCEPT ![t] = rec]

EmbedOthers == <<stratVars, multiVars, cacheVars, costVars, provVars>>

\* _get_device(): the cached device, or the one torch reports
GetDevice == IF _device # None THEN _device ELSE [kind |-> "device", type |-> TorchDevice]

\* max_length=4096 of the tokenizer call
MaxLength == 4096

Min(a, b) == IF a < b THEN a ELSE b

\* the ids of <s> and </s>
BosId == 0

EosId == 2

\* _tokenizer([text], padding=True, truncation=True, max_length=4096): the pieces of
\* the text, cut to max_length with the two special tokens counted, between <s> and
\* </s>; one text in the batch needs no padding
Tokenize(tokenizer, text) ==
    LET pieces == TokenIds[text]
        kept   == SubSeq(pieces, 1, Min(Len(pieces), MaxLength - 2))
        ids    == <<BosId>> \o kept \o <<EosId>>
    IN  [input_ids |-> ids, attention_mask |-> [i \in 1..Len(ids) |-> 1]]

\* the pretrained weights of allenai/longformer-base-4096, one dimension of 768: what
\* the network makes of a token
Hidden == (0 :> 2) @@ (2 :> 2) @@ (3 :> 9) @@ (5 :> 8) @@ (7 :> 1)

\* outputs.last_hidden_state of _model(**inputs): in evaluation mode the weights
\* decide it; in training mode dropout zeroes some of it at random
LastHiddenStates(model, inputs) ==
    LET ids  == inputs.input_ids
        full == [i \in 1..Len(ids) |-> Hidden[ids[i]]]
    IN  IF model.training
        THEN {[i \in 1..Len(ids) |-> IF i \in keep THEN full[i] ELSE 0] :
                 keep \in SUBSET (1..Len(ids))}
        ELSE {full}

RECURSIVE SeqSum(_)
SeqSum(seq) == IF seq = <<>> THEN 0 ELSE Head(seq) + SeqSum(Tail(seq))

\* (last_hidden_state * mask_expanded).sum(1) / mask_expanded.sum(1), in tenths
MeanPool(h, mask) ==
    (10 * SeqSum([i \in 1..Len(h) |-> h[i] * mask[i]])) \div SeqSum(mask)

\* a call enters get_longformer_embedding (r = 0) or KNNRouter.route of the router
\* that caller r constructed; its first statement is _init_model()
Enter(t, serial, r, text) ==
    /\ ~ThreadActive(t)
    /\ serial => Quiet
    /\ embedCalls < MaxEmbedCalls
    /\ SetThread(t, [IdleThread EXCEPT !.pc = "i_check", !.text = text, !.router = r])
    /\ embedCalls' = embedCalls + 1
    /\ UNCHANGED <<_tokenizer, _model, _device, constructed, embedLog>>
    /\ UNCHANGED <<knnVars, EmbedOthers>>

\* get_longformer_embedding(text)
EmbCall(t, serial) == \E text \in Queries : Enter(t, serial, 0, text)

\* _init_model loads whether or not the globals are set
InitCheckOmitted(t) ==
    /\ thr[t].pc = "i_check"
    /\ SetThread(t, [thr[t] EXCEPT !.pc = "i_device"])
    /\ UNCHANGED <<_tokenizer, _model, _device, constructed, embedCalls, embedLog>>
    /\ UNCHANGED <<knnVars, EmbedOthers>>

\* if _tokenizer is not None and _model is not None: return
InitCheck(t) ==
    /\ thr[t].pc = "i_check"
    /\ IF _tokenizer # None /\ _model # None
       THEN SetThread(t, [thr[t] EXCEPT !.pc = "e_device"])
       ELSE SetThread(t, [thr[t] EXCEPT !.pc = "i_device"])
    /\ UNCHANGED <<_tokenizer, _model, _device, constructed, embedCalls, embedLog>>
    /\ UNCHANGED <<knnVars, EmbedOthers>>

\* device = _get_device()
InitDevice(t) ==
    /\ thr[t].pc = "i_device"
    /\ _device' = GetDevice
    /\ SetThread(t, [thr[t] EXCEPT !.pc = "i_tokenizer", !.device = GetDevice.type])
    /\ UNCHANGED <<_tokenizer, _model, constructed, embedCalls, embedLog>>
    /\ UNCHANGED <<knnVars, EmbedOthers>>

\* _tokenizer = AutoTokenizer.from_pretrained(_MODEL_NAME)
InitTokenizer(t) ==
    /\ thr[t].pc = "i_tokenizer"
    /\ constructed' = [constructed EXCEPT !.tokenizer = @ + 1]
    /\ _tokenizer' = [kind |-> "tokenizer", id |-> constructed.tokenizer + 1]
    /\ SetThread(t, [thr[t] EXCEPT !.pc = "i_model"])
    /\ UNCHANGED <<_model, _device, embedCalls, embedLog>>
    /\ UNCHANGED <<knnVars, EmbedOthers>>

\* _model = AutoModel.from_pretrained(_MODEL_NAME).to(device)
InitModel(t) ==
    /\ thr[t].pc = "i_model"
    /\ constructed' = [constructed EXCEPT !.model = @ + 1]
    /\ _model' = [kind |-> "model", id |-> constructed.model + 1, training |-> FALSE,
                  device |-> thr[t].device]
    /\ SetThread(t, [thr[t] EXCEPT !.pc = "i_eval"])
    /\ UNCHANGED <<_tokenizer, _device, embedCalls, embedLog>>
    /\ UNCHANGED <<knnVars, EmbedOthers>>

\* the model is put in training mode instead
InitEvalTrain(t) ==
    /\ thr[t].pc = "i_eval"
    /\ _model' = [_model EXCEPT !.training = TRUE]
    /\ SetThread(t, [thr[t] EXCEPT !.pc = "e_device"])
    /\ UNCHANGED <<_tokenizer, _device, constructed, embedCalls, embedLog>>
    /\ UNCHANGED <<knnVars, EmbedOthers>>

\* _model.eval(), on whatever object the global names now
InitEval(t) ==
    /\ thr[t].pc = "i_eval"
    /\ _model' = [_model EXCEPT !.training = FALSE]
    /\ SetThread(t, [thr[t] EXCEPT !.pc = "e_device"])
    /\ UNCHANGED <<_tokenizer, _device, constructed, embedCalls, embedLog>>
    /\ UNCHANGED <<knnVars, EmbedOthers>>

\* a failed from_pretrained is tried again
LoadFailRetry(t) ==
    /\ thr[t].pc \in {"i_tokenizer", "i_model"}
    /\ constructed' = [constructed EXCEPT !.failed = @ + 1]
    /\ SetThread(t, [thr[t] EXCEPT !.pc = "i_check"])
    /\ UNCHANGED <<_tokenizer, _model, _device, embedCalls, embedLog>>
    /\ UNCHANGED <<knnVars, EmbedOthers>>

\* from_pretrained raises (no network and nothing in the hub cache, no memory)
LoadFail(t) ==
    /\ thr[t].pc \in {"i_tokenizer", "i_model"}
    /\ constructed' = [constructed EXCEPT !.failed = @ + 1]
    /\ SetThread(t, [IdleThread EXCEPT !.pc = "raised", !.error = "OSError"])
    /\ UNCHANGED <<_tokenizer, _model, _device, embedCalls, embedLog>>
    /\ UNCHANGED <<knnVars, EmbedOthers>>

\* get_longformer_embedding: device = _get_device()
EmbDevice(t) ==
    /\ thr[t].pc = "e_device"
    /\ _device' = GetDevice
    /\ SetThread(t, [thr[t] EXCEPT !.pc = "e_tokenize", !.device = GetDevice.type])
    /\ UNCHANGED <<_tokenizer, _model, constructed, embedCalls, embedLog>>
    /\ UNCHANGED <<knnVars, EmbedOthers>>

\* inputs = _tokenizer([text], ...).to(device)
EmbTokenize(t) ==
    /\ thr[t].pc = "e_tokenize"
    /\ SetThread(t, [thr[t] EXCEPT !.pc = "e_forward",
                                   !.inputs = Tokenize(_tokenizer, thr[t].text)])
    /\ UNCHANGED <<_tokenizer, _model, _device, constructed, embedCalls, embedLog>>
    /\ UNCHANGED <<knnVars, EmbedOthers>>

\* outputs = _model(**inputs), the masked mean, return embedding[0].cpu().numpy();
\* in route the embedding goes on to the classifier
EmbForward(t) ==
    /\ thr[t].pc = "e_forward"
    /\ \E h \in LastHiddenStates(_model, thr[t].inputs) :
          LET vec == MeanPool(h, thr[t].inputs.attention_mask)
          IN  /\ IF thr[t].router = 0
                 THEN SetThread(t, [IdleThread EXCEPT !.pc = "done"])
                 ELSE SetThread(t, [thr[t] EXCEPT !.pc = "r_predict",
                                                !.ret = [kind |-> "ndarray", v |-> vec]])
              /\ embedLog' = Append(embedLog, [text |-> thr[t].text, vec |-> vec])
    /\ UNCHANGED <<_tokenizer, _model, _device, constructed, embedCalls>>
    /\ UNCHANGED <<knnVars, EmbedOthers>>

EmbedStep(t) ==
    \/ InitCheck(t)
    \/ InitDevice(t)
    \/ InitTokenizer(t)
    \/ InitModel(t)
    \/ InitEval(t)
    \/ LoadFail(t)
    \/ EmbDevice(t)
    \/ EmbTokenize(t)
    \/ EmbForward(t)

EmbCallSerial(t) == EmbCall(t, TRUE)

EmbCallConcurrent(t) == EmbCall(t, FALSE)

InitEmbed ==
    /\ StratIdle
    /\ MultiIdle
    /\ CacheIdle
    /\ EmbedIdle
    /\ KnnIdle
    /\ CostIdle
    /\ ProvIdle

\* threads that call get_longformer_embedding whenever they like
NextEmbed == \E t \in Threads : EmbCallConcurrent(t) \/ EmbedStep(t)

SpecEmbed == InitEmbed /\ [][NextEmbed]_vars

\* calls of get_longformer_embedding one after the other
NextEmbedSerial == \E t \in Threads : EmbCallSerial(t) \/ EmbedStep(t)

SpecEmbedSerial == InitEmbed /\ [][NextEmbedSerial]_vars

(***************************************************************************)
(* router/knn.py: KNNRouter.__init__ and route.  The classifier is a       *)
(* scikit-learn nearest-neighbour model fitted on embeddings of benchmark  *)
(* queries labelled with the provider's model names.                       *)
(***************************************************************************)

Classifier(fit) == [kind |-> "KNeighborsClassifier", fit |-> fit]

\* what the published artifact was fitted on, and what the developer's copy was
PublishedKnn ==
    Classifier(<<[x |-> 15, y |-> "gemini-2.5-flash-lite"],
                 [x |-> 45, y |-> "gemini-3-flash-preview"],
                 [x |-> 60, y |-> "gemini-3-pro-preview"]>>)

FallbackKnn ==
    Classifier(<<[x |-> 20, y |-> "gemini-2.5-flash-lite"],
                 [x |-> 50, y |-> "gemini-3-pro-preview"]>>)

UnfittedKnn == Classifier(<<>>)

\* pickle.load(f): the object the bytes encode; bytes that are no whole pickle raise
PickleLoad(bytes) ==
    IF bytes = PublishedBytes THEN PublishedKnn
    ELSE IF bytes = FallbackBytes THEN FallbackKnn
    ELSE IF bytes = UnfittedBytes THEN UnfittedKnn
    ELSE [kind |-> "UnpicklingError"]

Abs(n) == IF n < 0 THEN 0 - n ELSE n

\* self._knn.predict(embedding)[0]: the label of the nearest fitted point, the first
\* of them in index order
Predict(knn, v) ==
    LET n    == Len(knn.fit)
        d(i) == Abs(knn.fit[i].x - v)
        best == CHOOSE i \in 1..n : \A j \in 1..n : d(i) < d(j) \/ (d(i) = d(j) /\ i <= j)
    IN  knn.fit[best].y

KnnOthers == <<stratVars, multiVars, costVars, provVars>>

\* KNNRouter(provider): pkl_path = get_router_path(provider)
KnnInit(p, serial) == Call(p, serial, TRUE)

\* with open(pkl_path, "rb") as f: self._knn = pickle.load(f); self._provider = provider
KnnLoad(p) ==
    /\ Constructing(p)
    /\ LET knn == PickleLoad(BytesAt(fs, fs.dest))
       IN  IF knn.kind = "UnpicklingError"
           THEN /\ routers' = [routers EXCEPT ![p] = [kind |-> "raised",
                                                      error |-> "UnpicklingError"]]
                /\ UNCHANGED pickleLoads
           ELSE /\ routers' = [routers EXCEPT ![p] = [kind |-> "KNNRouter", _knn |-> knn,
                                                      _provider |-> caller[p].provider]]
                /\ pickleLoads' = [pickleLoads EXCEPT ![caller[p].provider] = @ + 1]
    /\ UNCHANGED <<routed, cacheVars, embedVars, KnnOthers>>

\* router.route(query) on a KNNRouter that was constructed:
\* embedding = get_longformer_embedding(query)
KnnRoute(t) ==
    \E r \in Callers, query \in Queries :
        /\ routers[r].kind = "KNNRouter"
        /\ Enter(t, TRUE, r, query)

\* return self._knn.predict(embedding.reshape(1, -1))[0]
KnnPredict(t) ==
    /\ thr[t].pc = "r_predict"
    /\ routers[thr[t].router]._knn.fit # <<>>
    /\ routed' = Append(routed, [router |-> thr[t].router, query |-> thr[t].text,
                                 model |-> Predict(routers[thr[t].router]._knn,
                                                   thr[t].ret.v)])
    /\ SetThread(t, [IdleThread EXCEPT !.pc = "done"])
    /\ UNCHANGED <<_tokenizer, _model, _device, constructed, embedCalls, embedLog>>
    /\ UNCHANGED <<routers, pickleLoads, EmbedOthers>>

\* self._knn.predict(embedding) of a classifier that was never fitted raises
KnnPredictFail(t) ==
    /\ thr[t].pc = "r_predict"
    /\ routers[thr[t].router]._knn.fit = <<>>
    /\ SetThread(t, [IdleThread EXCEPT !.pc = "raised", !.error = "NotFittedError"])
    /\ UNCHANGED <<_tokenizer, _model, _device, constructed, embedCalls, embedLog>>
    /\ UNCHANGED <<knnVars, EmbedOthers>>

KnnInitSerial(p) == KnnInit(p, TRUE)

InitCtor ==
    /\ InitEmptyCache
    /\ fallbackExists \in BOOLEAN

\* one process on an empty cache: get_router_path calls and KNNRouter constructions,
\* one after the other
NextCtor ==
    \E p \in Callers :
        CallSerial(p) \/ KnnInitSerial(p) \/ FetchStep(p) \/ FallbackStep(p) \/ KnnLoad(p)

SpecCtor == InitCtor /\ [][NextCtor]_vars

\* a process that finds the artifact in the cache, put there by an earlier download
\* or by an earlier copy of the local fallback
InitKnn ==
    /\ StratIdle
    /\ MultiIdle
    /\ EmbedIdle
    /\ KnnIdle
    /\ CostIdle
    /\ ProvIdle
    /\ \E bytes \in {PublishedBytes, FallbackBytes} :
          /\ fs = [dir |-> TRUE, tmp |-> 0, dest |-> 1,
                   inode |-> [i \in InodeIds |-> IF i = 1 THEN bytes ELSE <<>>]]
          /\ fallbackExists = (bytes = FallbackBytes)
    /\ caller = [p \in Callers |-> IdleCaller]

\* KNNRouter constructions and route calls of that process, one after the other
NextKnn ==
    \/ \E p \in Callers : KnnInitSerial(p) \/ CheckCached(p) \/ KnnLoad(p)
    \/ \E t \in Threads : KnnRoute(t) \/ EmbedStep(t) \/ KnnPredict(t)

SpecKnn == InitKnn /\ [][NextKnn]_vars

\* a process whose first caller holds a KNNRouter, built from whatever the cache file
\* held, and that has not embedded anything yet
InitRoute ==
    /\ StratIdle
    /\ MultiIdle
    /\ EmbedIdle
    /\ CostIdle
    /\ ProvIdle
    /\ \E bytes \in {PublishedBytes, FallbackBytes, UnfittedBytes} :
          /\ fs = [dir |-> TRUE, tmp |-> 0, dest |-> 1,
                   inode |-> [i \in InodeIds |-> IF i = 1 THEN bytes ELSE <<>>]]
          /\ fallbackExists = (bytes # PublishedBytes)
          /\ routers = [p \in Callers |->
                           IF p = 1 THEN [kind |-> "KNNRouter", _knn |-> PickleLoad(bytes),
                                          _provider |-> CacheProvider]
                           ELSE NoRouter]
    /\ caller = [p \in Callers |-> IdleCaller]
    /\ pickleLoads = [n \in ProviderArgs |-> IF n = CacheProvider THEN 1 ELSE 0]
    /\ routed = <<>>

\* route calls on that router, one after the other
NextRoute ==
    \E t \in Threads : KnnRoute(t) \/ EmbedStep(t) \/ KnnPredict(t) \/ KnnPredictFail(t)

SpecRoute == InitRoute /\ [][NextRoute]_vars

(***************************************************************************)
(* Properties of KNNRouter                                                 *)
(***************************************************************************)

\* C15: get_router_path and KNNRouter construction for a provider name that the
\* manifest does not have raise ValueError before any cache lookup, download or copy:
\* the step that raises leaves the cache directory as it was, and no artifact is read.
C15_UnknownProviderRejectedFirst ==
    /\ [](\A p \in Callers :
            (caller[p].pc # "idle" /\ ~InManifest(p)) =>
                /\ caller[p].pc = "done"
                /\ caller[p].ret.status = "raised"
                /\ caller[p].ret.error = "ValueError"
                /\ caller[p].consulted = <<>>
                /\ caller[p].payload = <<>>
                /\ routers[p] = NoRouter)
    /\ [][\A p \in Callers :
            (caller[p].pc = "idle" /\ caller'[p].pc # "idle"
               /\ caller'[p].provider \notin DOMAIN ROUTER_MANIFEST) =>
                (fs' = fs /\ pickleLoads' = pickleLoads /\ routers' = routers)]_vars

\* KNNRouter("nonexistent") raised in a process that had constructed a KNNRouter for
\* google before, with the artifact in the cache
C15_Witness ==
    \E p, q \in Callers :
        /\ caller[p].ctor
        /\ caller[p].provider = "nonexistent"
        /\ caller[p].ret.error = "ValueError"
        /\ routers[q].kind = "KNNRouter"
        /\ fs.dest # 0

\* C16: within one process the artifact of a provider is deserialized at most once,
\* however many KNNRouter instances are constructed for it and however many route()
\* calls are made.
C16_ArtifactDeserializedOncePerProvider ==
    \A n \in ProviderArgs : pickleLoads[n] <= 1

\* C17: two route() calls on the same KNNRouter with the same prompt return the same
\* model name, whatever other route() calls happen in between.
C17_RouteDeterministic ==
    \A i, j \in 1..Len(routed) :
        (routed[i].router = routed[j].router /\ routed[i].query = routed[j].query)
            => routed[i].model = routed[j].model

\* the same router was asked about the same prompt twice, with a route() call for
\* another prompt in between that it answered with another model
C17_Witness ==
    /\ Len(routed) = 3
    /\ routed[1].router = routed[3].router
    /\ routed[1].query = routed[3].query
    /\ routed[2].query # routed[1].query
    /\ routed[2].model # routed[1].model

(***************************************************************************)
(* Properties of the embedder's initialisation                             *)
(***************************************************************************)

\* C11: when several threads call get_longformer_embedding before any initialisation
\* has completed, and no load fails, the tokenizer and the model are constructed at
\* most once in the process.
C11_InitialisedAtMostOnce ==
    constructed.failed = 0 => (constructed.tokenizer <= 1 /\ constructed.model <= 1)

\* some call is past _init_model
InitCompleted ==
    \/ embedLog # <<>>
    \/ \E t \in Threads : thr[t].pc \in {"e_device", "e_tokenize", "e_forward", "r_predict"}

\* C12: in sequential use nothing is constructed before the first
\* get_longformer_embedding call, and once a call has completed the initialisation no
\* later call constructs a tokenizer or a model.
C12_LazyAndIdempotentInit ==
    /\ [](embedCalls = 0 =>
            (/\ _tokenizer = None
             /\ _model = None
             /\ constructed.tokenizer = 0
             /\ constructed.model = 0))
    /\ [][InitCompleted =>
            (/\ constructed'.tokenizer = constructed.tokenizer
             /\ constructed'.model = constructed.model)]_vars

\* a first load failed half way, a second call completed the initialisation, and a
\* third call returned an embedding with nothing constructed again
C12_Witness ==
    /\ constructed.failed = 1
    /\ constructed.model = 1
    /\ Len(embedLog) = 2
    /\ \A t \in Threads : ~ThreadActive(t)

(***************************************************************************)
(* registry/models.py: calculate_cost.  The prices are Python floats and   *)
(* the token counts ints, so every operation of the expression is a float  *)
(* operation that rounds its exact result to the nearest float, ties to    *)
(* the even significand.  A float is m * 2^e with a significand m of       *)
(* Precision bits (or zero).  Python's float keeps 53 bits; the model      *)
(* keeps 14, which holds 1_000_000 exactly as Python's does.  The token    *)
(* counts are ints of either sign: the function checks none of them.       *)
(***************************************************************************)

Precision == 14

MaxTokens == 4

FloatZero == [m |-> 0, e |-> 0]

\* the float nearest to (n / d) * 2^e, for d > 0
RECURSIVE RoundRat(_, _, _)
RoundRat(n, d, e) ==
    IF n = 0 THEN FloatZero
    ELSE IF n < 0 THEN [RoundRat(-n, d, e) EXCEPT !.m = -@]
    ELSE IF n < d * 2^(Precision - 1) THEN RoundRat(2 * n, d, e - 1)
    ELSE IF n >= d * 2^Precision THEN RoundRat(n, 2 * d, e + 1)
    ELSE LET q  == n \div d
             r  == n % d
             up == 2 * r > d \/ (2 * r = d /\ q % 2 = 1)
             m  == IF up THEN q + 1 ELSE q
         IN  IF m = 2^Precision THEN [m |-> 2^(Precision - 1), e |-> e + 1]
             ELSE [m |-> m, e |-> e]

\* float(n) of an int n
FromInt(n) == RoundRat(n, 1, 0)

\* the float a price literal of the catalog denotes: 0.10 is the float nearest to 10/100
FloatOf(hundredths) == RoundRat(hundredths, 100, 0)

\* a * b
FMul(a, b) == RoundRat(a.m * b.m, 1, a.e + b.e)

\* a + b
FAdd(a, b) ==
    IF a.m = 0 THEN b
    ELSE IF b.m = 0 THEN a
    ELSE LET e0 == Min(a.e, b.e)
         IN  RoundRat(a.m * 2^(a.e - e0) + b.m * 2^(b.e - e0), 1, e0)

\* a / b, b not zero
FDiv(a, b) ==
    IF b.m < 0 THEN RoundRat(-a.m, -b.m, a.e - b.e) ELSE RoundRat(a.m, b.m, a.e - b.e)

CostReturned(value) == [status |-> "returned", value |-> value, error |-> ""]

CostRaised(err) == [status |-> "raised", value |-> FloatZero, error |-> err]

\* the two prices are taken the wrong way round
CalculateCostSwapped(provider, model, input_tokens, output_tokens) ==
    IF provider \notin DOMAIN catalog THEN CostRaised("KeyError")
    ELSE IF model \notin DOMAIN catalog[provider] THEN CostRaised("KeyError")
    ELSE LET info == catalog[provider][model]
         IN  CostReturned(
                 FDiv(FAdd(FMul(FromInt(input_tokens), FloatOf(info.output_price)),
                           FMul(FromInt(output_tokens), FloatOf(info.input_price))),
                      FromInt(1000000)))

\* the output price is charged once, not per token
CalculateCostFlatOutput(provider, model, input_tokens, output_tokens) ==
    IF provider \notin DOMAIN catalog THEN CostRaised("KeyError")
    ELSE IF model \notin DOMAIN catalog[provider] THEN CostRaised("KeyError")
    ELSE LET info == catalog[provider][model]
         IN  CostReturned(
                 FDiv(FAdd(FMul(FromInt(input_tokens), FloatOf(info.input_price)),
                           FloatOf(info.output_price)),
                      FromInt(1000000)))

\* models = PROVIDER_MODELS[provider]; info = models[model];
\* return (input_tokens * info["input_price"] + output_tokens * info["output_price"])
\*            / 1_000_000
calculate_cost(provider, model, input_tokens, output_tokens) ==
    IF provider \notin DOMAIN catalog THEN CostRaised("KeyError")
    ELSE IF model \notin DOMAIN catalog[provider] THEN CostRaised("KeyError")
    ELSE LET info == catalog[provider][model]
         IN  CostReturned(
                 FDiv(FAdd(FMul(FromInt(input_tokens), FloatOf(info.input_price)),
                           FMul(FromInt(output_tokens), FloatOf(info.output_price))),
                      FromInt(1000000)))

\* the arguments callers pass: every catalog pair, a model the provider does not have,
\* and a provider the catalog does not have
CostModelArgs ==
    UNION {{[provider |-> n, model |-> m] : m \in ModelsOf(n) \cup {"gpt-5"}} :
              n \in ProviderNames}
        \cup {[provider |-> "nonexistent", model |-> "gpt-4o"]}

\* the ints callers pass for a token count; nothing keeps a negative one out
TokenCounts == -1..MaxTokens

InitCost ==
    /\ StratIdle
    /\ MultiIdle
    /\ CacheIdle
    /\ EmbedIdle
    /\ KnnIdle
    /\ CostIdle
    /\ ProvIdle

\* calculate_cost(provider, model, input_tokens, output_tokens); two calls of the
\* module's functions are what a comparison of costs takes
CostCall ==
    /\ Len(costCall) + Len(modelsCalls) < 2
    /\ \E pm \in CostModelArgs, input_tokens \in TokenCounts, output_tokens \in TokenCounts :
          /\ costCall' = Append(costCall, [provider |-> pm.provider, model |-> pm.model,
                                           input_tokens |-> input_tokens,
                                           output_tokens |-> output_tokens])
          /\ costResult' = Append(costResult,
                                  calculate_cost(pm.provider, pm.model,
                                                 input_tokens, output_tokens))
    /\ UNCHANGED <<catalog, modelsCalls>>
    /\ UNCHANGED <<stratVars, multiVars, cacheVars, embedVars, knnVars, provVars>>

\* get_models that fills in an entry for a provider it does not know:
\* PROVIDER_MODELS.setdefault(provider, {})
GetModelsSetDefault ==
    /\ Len(costCall) + Len(modelsCalls) < 2
    /\ \E provider \in ProviderArgs :
          /\ catalog' = IF provider \in DOMAIN catalog THEN catalog
                        ELSE catalog @@ (provider :> <<>>)
          /\ modelsCalls' = Append(modelsCalls,
                                   [provider |-> provider, status |-> "returned",
                                    value |-> catalog'[provider]])
    /\ UNCHANGED <<costCall, costResult>>
    /\ UNCHANGED <<stratVars, multiVars, cacheVars, embedVars, knnVars, provVars>>

\* get_models(provider): ValueError for a provider the catalog does not have, else the
\* provider's dict itself
GetModels ==
    /\ Len(costCall) + Len(modelsCalls) < 2
    /\ \E provider \in ProviderArgs :
          modelsCalls' = Append(modelsCalls,
                                IF provider \notin DOMAIN catalog
                                THEN [provider |-> provider, status |-> "ValueError",
                                      value |-> <<>>]
                                ELSE [provider |-> provider, status |-> "returned",
                                      value |-> catalog[provider]])
    /\ UNCHANGED <<catalog, costCall, costResult>>
    /\ UNCHANGED <<stratVars, multiVars, cacheVars, embedVars, knnVars, provVars>>

NextCost == CostCall \/ GetModels

SpecCost == InitCost /\ [][NextCost]_vars

(***************************************************************************)
(* Properties of calculate_cost.  The prices are read from the catalog.    *)
(***************************************************************************)

InCatalog(c) ==
    c.provider \in DOMAIN PROVIDER_MODELS /\ c.model \in DOMAIN PROVIDER_MODELS[c.provider]

InputPriceOf(c) == FloatOf(PROVIDER_MODELS[c.provider][c.model].input_price)

OutputPriceOf(c) == FloatOf(PROVIDER_MODELS[c.provider][c.model].output_price)

\* C19: for every provider, every model of it and all token counts calculate_cost
\* returns (input_tokens * input_price + output_tokens * output_price) / 1_000_000,
\* and exactly 0.0 for zero input and zero output tokens.
C19_CostIsPerMillionTokenPrice ==
    \A i \in 1..Len(costCall) :
        InCatalog(costCall[i]) =>
            /\ costResult[i].status = "returned"
            /\ costResult[i].value =
                  FDiv(FAdd(FMul(FromInt(costCall[i].input_tokens), InputPriceOf(costCall[i])),
                            FMul(FromInt(costCall[i].output_tokens),
                                 OutputPriceOf(costCall[i]))),
                       FromInt(1000000))
            /\ (costCall[i].input_tokens = 0 /\ costCall[i].output_tokens = 0)
                  => costResult[i].value = FloatZero

\* a call with zero tokens and a call with more input than output tokens, for a model
\* whose two prices differ
C19_Witness ==
    /\ Len(costCall) = 2
    /\ costCall[1] = [provider |-> "google", model |-> "gemini-2.5-flash-lite",
                      input_tokens |-> 0, output_tokens |-> 0]
    /\ costResult[1].value = FloatZero
    /\ costCall[2] = [provider |-> "anthropic", model |-> "claude-haiku-4",
                      input_tokens |-> 3, output_tokens |-> 1]
    /\ costResult[2].value # FloatZero

Doubled(c) == [c EXCEPT !.input_tokens = 2 * @, !.output_tokens = 2 * @]

\* C20: for every provider, model and token counts a, b,
\* calculate_cost(p, m, 2a, 2b) equals 2 * calculate_cost(p, m, a, b).
C20_CostDoublesWithTokens ==
    \A i, j \in 1..Len(costCall) :
        (InCatalog(costCall[i]) /\ costCall[j] = Doubled(costCall[i])) =>
            /\ costResult[i].status = "returned"
            /\ costResult[j].status = "returned"
            /\ costResult[j].value = FMul(FromInt(2), costResult[i].value)

\* a call and the call with both token counts doubled, where both terms of the sum
\* count and the cost is not zero
C20_Witness ==
    /\ Len(costCall) = 2
    /\ costCall[1].input_tokens = 1
    /\ costCall[1].output_tokens = 2
    /\ costCall[2] = Doubled(costCall[1])
    /\ costResult[1].status = "returned"
    /\ costResult[2].value # FloatZero
    /\ costResult[2].value # costResult[1].value

\* C21: calculate_cost never returns a negative value, for any provider, model and
\* token counts it accepts.
C21_CostNeverNegative ==
    \A i \in 1..Len(costCall) :
        costResult[i].status = "returned" => costResult[i].value.m >= 0

TierNames == {"budget", "balanced", "premium"}

CatalogWellFormed ==
    \A p \in DOMAIN catalog :
        /\ \A t \in TierNames : \E m \in DOMAIN catalog[p] : catalog[p][m].tier = t
        /\ \A m \in DOMAIN catalog[p] :
              /\ catalog[p][m].input_price > 0
              /\ catalog[p][m].output_price > 0
              /\ catalog[p][m].tier \in DOMAIN TIER_RANK
        /\ p \in DOMAIN DEFAULT_BASE_MODELS
        /\ DEFAULT_BASE_MODELS[p] \in DOMAIN catalog[p]

\* C22: in every reachable state every provider of the catalog has a model in each of
\* the tiers budget, balanced and premium, every model has strictly positive prices and
\* a tier in TIER_RANK, each provider's base model is one of its own models, and no
\* library operation mutates the catalog.
C22_CatalogWellFormedAndNeverMutated ==
    [](CatalogWellFormed /\ DOMAIN catalog = {"google", "anthropic", "openai"})
        /\ [][catalog' = catalog]_vars

\* get_models was asked for a provider the catalog lacks, and calculate_cost has run
C22_Witness ==
    /\ Len(modelsCalls) = 1
    /\ modelsCalls[1].provider = "nonexistent"
    /\ modelsCalls[1].status = "ValueError"
    /\ Len(costCall) = 1
    /\ costResult[1].status = "returned"

(***************************************************************************)
(* The tiers the strategies meet.                                          *)
(***************************************************************************)

\* the catalog with the tier of one model replaced
WithTier(p, m, t) == [PROVIDER_MODELS EXCEPT ![p][m].tier = t]

C24_NonEmptyListSoStrategyFindsWinner ==
    /\ mpc = "ctor_raised" => (mpProviders = <<>> /\ mresult = Raised("ValueError"))
    /\ mpc \notin {"new", "ctor_raised"} => mpProviders # <<>>
    /\ (mcall.strategy \in STRATEGIES /\ StrategyApplied) =>
          /\ msel # <<>>
          /\ ~(mpc = "raised" /\ mresult.error \in {"TypeError", "IndexError", "KeyError"})

(***************************************************************************)
(* provider.py, _events.py, _middleware.py: Provider.chat and              *)
(* Provider.stream_text with the event buses and the middleware chain.     *)
(* A call runs in one thread from its first statement to its return, so    *)
(* chat is one step; stream_text is a generator function, whose body runs  *)
(* from one next() of the consumer to the following yield.  plog records   *)
(* what the call does, in order.  Event handlers observe their EventData   *)
(* and return.  A middleware is user code; the kinds modelled are:         *)
(*   pass     calls next() once                                            *)
(*   stop     returns without calling next()                               *)
(*   respond  sets data.response and returns without calling next()        *)
(*   twice    calls next() two times                                       *)
(*   rewrite  sets data.prompt and data.model, then calls next() once      *)
(* max_tokens and temperature are handed through unchanged and left out.   *)
(***************************************************************************)

MaxHandlers == 2

MaxMiddlewares == 2

MiddlewareKinds == {"pass", "stop", "respond", "twice", "rewrite"}

\* the model argument of a call: omitted (None), empty, or a model
ModelArgs == {"None", "", "claude-opus-4"}

\* field(default_factory=dict)
EmptyDict == [chunk |-> "None"]

\* what the backend's stream yields: the first n of these fragments
Fragments == <<"Hello", " world">>

\* the Response a "respond" middleware puts into data.response
CachedResponse == [text |-> "cached"]

\* x = v followed by the statements Body(x): the right-hand side is evaluated once
With(v, Body(_)) == CHOOSE y \in {Body(x) : x \in {v}} : TRUE

\* EventData(event, provider, prompt, model, response, metadata)
EventData(event, provider, prompt, model, response, metadata) ==
    [event |-> event, provider |-> provider, prompt |-> prompt, model |-> model,
     response |-> response, metadata |-> metadata]

\* EventBus.emit: for handler in self._handlers.get(event_name, []): handler(data)
BusEmit(b, event_name, data) ==
    [i \in 1..Len(bus[b][event_name]) |->
        [kind |-> "handler", bus |-> b, id |-> bus[b][event_name][i], data |-> data]]

\* the provider's own bus is fired before the global one
EmitOwnBusFirst(log, inst, event_name, data) ==
    Append(log, [kind |-> "emit", inst |-> inst, data |-> data])
        \o BusEmit(inst, event_name, data) \o BusEmit("global", event_name, data)

\* Provider._emit: emit_event(event_name, data); self._event_bus.emit(event_name, data)
_emit(log, inst, event_name, data) ==
    Append(log, [kind |-> "emit", inst |-> inst, data |-> data])
        \o BusEmit("global", event_name, data) \o BusEmit(inst, event_name, data)

\* KNNRouter.route(prompt) of the provider's router, built from the published artifact
RouterRoute(prompt) ==
    With(Tokenize("tokenizer", prompt), LAMBDA inputs :
        Predict(PublishedKnn,
                MeanPool(CHOOSE x \in LastHiddenStates([training |-> FALSE], inputs) : TRUE,
                         inputs.attention_mask)))

\* _resolve_model that lets the constructor's default win over the per-call model
ResolveModelDefaultFirst(inst, model, prompt) ==
    IF ~provs[inst].smart_routing
    THEN IF model # "None" /\ model = ""
         THEN [exc |-> "ValueError", model |-> "None", routed |-> FALSE]
         ELSE [exc |-> "", routed |-> FALSE,
               model |-> IF provs[inst]._default_model # "None"
                         THEN provs[inst]._default_model ELSE model]
    ELSE [exc |-> "", model |-> RouterRoute(prompt), routed |-> TRUE]

\* Provider._resolve_model(model, prompt); routed is whether self._router.route ran
_resolve_model(inst, model, prompt) ==
    IF ~provs[inst].smart_routing
    THEN IF model # "None" /\ model = ""
         THEN [exc |-> "ValueError", model |-> "None", routed |-> FALSE]
         ELSE [exc |-> "", routed |-> FALSE,
               model |-> IF model # "None" THEN model ELSE provs[inst]._default_model]
    ELSE [exc |-> "", model |-> RouterRoute(prompt), routed |-> TRUE]

\* b - a
FSubSwapped(a, b) == FAdd(b, [a EXCEPT !.m = -@])

\* a - b
FSub(a, b) == FAdd(a, [b EXCEPT !.m = -@])

\* Provider._build_response(model, result): base_cost, savings and savings_percent stay
\* 0.0 unless the provider has a base model that its catalog lists
_build_response(inst, model, result) ==
    With(provs[inst].name, LAMBDA name :
    With(calculate_cost(name, model, result.input_tokens, result.output_tokens),
         LAMBDA cost :
    IF cost.status = "raised" THEN [exc |-> "KeyError", value |-> None]
    ELSE
    With(provs[inst]._base_model, LAMBDA base_model :
    With(IF base_model # "None" /\ base_model # "" /\ base_model \in DOMAIN catalog[name]
         THEN calculate_cost(name, base_model, result.input_tokens,
                             result.output_tokens).value
         ELSE FloatZero, LAMBDA base_cost :
    With(IF base_model # "None" /\ base_model # "" /\ base_model \in DOMAIN catalog[name]
         THEN FSub(base_cost, cost.value)
         ELSE FloatZero, LAMBDA savings :
        [exc |-> "",
         value |->
           [text |-> result.text, model |-> model, provider |-> name,
            cost |-> cost.value,
            input_tokens |-> result.input_tokens,
            output_tokens |-> result.output_tokens,
            input_cost |-> FDiv(FMul(FromInt(result.input_tokens),
                                     FloatOf(catalog[name][model].input_price)),
                                FromInt(1000000)),
            output_cost |-> FDiv(FMul(FromInt(result.output_tokens),
                                      FloatOf(catalog[name][model].output_price)),
                                 FromInt(1000000)),
            savings |-> savings,
            savings_percent |-> IF base_cost.m > 0
                                THEN FMul(FDiv(savings, base_cost), FromInt(100))
                                ELSE FloatZero,
            base_model |-> IF base_model # "None" /\ base_model # "" THEN base_model
                           ELSE model,
            base_cost |-> base_cost]])))))

\* the model is resolved and on_route emitted, with the router's call logged; used by
\* final_handler and pre_handler
Resolved(c, inst, r) ==
    [c EXCEPT !.data.model = r.model,
              !.log = _emit(IF r.routed
                            THEN Append(c.log, [kind |-> "route", inst |-> inst,
                                                prompt |-> c.data.prompt,
                                                model |-> r.model])
                            ELSE c.log,
                            inst, "on_route",
                            EventData("on_route", provs[inst].name, c.data.prompt,
                                      r.model, None, EmptyDict))]

\* final_handler(data) of chat: resolve the model, emit on_route, call the backend,
\* build the Response into data.response
final_handler(c0, inst, ok) ==
    With(c0, LAMBDA c :
    With(_resolve_model(inst, c.data.model, c.data.prompt), LAMBDA r :
    IF r.exc # "" THEN [c EXCEPT !.exc = r.exc]
    ELSE
    With([Resolved(c, inst, r) EXCEPT
             !.log = Append(@, [kind |-> "backend", op |-> "call", inst |-> inst,
                                model |-> r.model, prompt |-> c.data.prompt])],
         LAMBDA c2 :
    IF ~ok THEN [c2 EXCEPT !.exc = "BackendError"]
    ELSE
    With(_build_response(inst, r.model, provs[inst]._backend.call), LAMBDA resp :
        IF resp.exc # "" THEN [c2 EXCEPT !.exc = resp.exc]
        ELSE [c2 EXCEPT !.data.response = resp.value]))))

\* pre_handler(data) of stream_text: resolve the model, emit on_route
pre_handler(c0, inst) ==
    With(c0, LAMBDA c :
    With(_resolve_model(inst, c.data.model, c.data.prompt), LAMBDA r :
        IF r.exc # "" THEN [c EXCEPT !.exc = r.exc] ELSE Resolved(c, inst, r)))

\* final(data), the last callable of the chain
Final(c0, inst, ok) ==
    With(c0, LAMBDA c :
    With([c EXCEPT !.log = Append(@, [kind |-> "final", data |-> c.data])],
         LAMBDA entered :
        IF c.data.event = "chat" THEN final_handler(entered, inst, ok)
        ELSE pre_handler(entered, inst)))

\* a middleware returns; an exception raised below it passes through it
MwReturn(c0, mw) ==
    With(c0, LAMBDA c :
        IF c.exc # "" THEN c
        ELSE [c EXCEPT !.log = Append(@, [kind |-> "mw_exit", id |-> mw.id,
                                          data |-> c.data])])

RECURSIVE next_fn(_, _, _, _, _)

\* middlewares[index](data, make_next(index + 1)): the middleware's own code around
\* its calls of next()
CallMiddleware(c0, middlewares, index, inst, ok) ==
    With(c0, LAMBDA c :
    With(middlewares[index + 1], LAMBDA mw :
    With([c EXCEPT !.log = Append(@, [kind |-> "mw_enter", id |-> mw.id,
                                      data |-> c.data])],
         LAMBDA entered :
        CASE mw.kind = "pass" ->
                MwReturn(next_fn(entered, middlewares, index + 1, inst, ok), mw)
          [] mw.kind = "stop" -> MwReturn(entered, mw)
          [] mw.kind = "respond" ->
                MwReturn([entered EXCEPT !.data.response = CachedResponse], mw)
          [] mw.kind = "twice" ->
                MwReturn(next_fn(next_fn(entered, middlewares, index + 1, inst, ok),
                                 middlewares, index + 1, inst, ok), mw)
          [] mw.kind = "rewrite" ->
                MwReturn(next_fn([entered EXCEPT !.data.prompt = "Prove it",
                                                 !.data.model = "claude-haiku-4"],
                                 middlewares, index + 1, inst, ok), mw))))

\* next_fn of make_next(index): if index >= len(middlewares): final(data)
\* else: middlewares[index](data, make_next(index + 1)); after an exception nothing
\* more of the chain runs
next_fn(c0, middlewares, index, inst, ok) ==
    With(c0, LAMBDA c :
        IF c.exc # "" THEN c
        ELSE IF index >= Len(middlewares) THEN Final(c, inst, ok)
        ELSE CallMiddleware(c, middlewares, index, inst, ok))

\* _run_chain that calls final(data) once more when the chain has returned
RunChainThenFinal(middlewares, c, inst, ok) ==
    IF middlewares # <<>>
    THEN Final(CallMiddleware(c, middlewares, 0, inst, ok), inst, ok)
    ELSE Final(c, inst, ok)

\* _run_chain(middlewares, data, final)
_run_chain(middlewares, c, inst, ok) ==
    IF middlewares # <<>> THEN CallMiddleware(c, middlewares, 0, inst, ok)
    ELSE Final(c, inst, ok)

\* the provider's middlewares are put before the global ones
ChainOfOwnFirst(inst) == chain[inst] \o chain["global"]

\* _global_middlewares + self._middlewares
ChainOf(inst) == chain["global"] \o chain[inst]

\* the statements of chat and of stream_text up to and including _run_chain
RunRequest(inst, prompt, model, event, ok) ==
    With(provs[inst].name, LAMBDA name :
    With(IF event = "chat" THEN "on_chat" ELSE "on_stream", LAMBDA second :
        _run_chain(ChainOf(inst),
                   [data |-> MiddlewareData(prompt, name, model, event),
                    log |-> _emit(_emit(<<>>, inst, "on_request",
                                        EventData("on_request", name, prompt, "None",
                                                  None, EmptyDict)),
                                  inst, second,
                                  EventData(second, name, prompt, "None", None,
                                            EmptyDict)),
                    exc |-> ""],
                   inst, ok)))

\* chat that emits on_response only when a response was produced
ChatResponseEventIfSet(inst, prompt, model, ok) ==
    With(RunRequest(inst, prompt, model, "chat", ok), LAMBDA c :
        IF c.exc # "" \/ c.data.response = None THEN c
        ELSE [c EXCEPT !.log =
                 _emit(@, inst, "on_response",
                       EventData("on_response", provs[inst].name, c.data.prompt,
                                 c.data.model, c.data.response, EmptyDict))])

\* Provider.chat(prompt, model=...): returns mw_data.response
chat(inst, prompt, model, ok) ==
    With(RunRequest(inst, prompt, model, "chat", ok), LAMBDA c :
        IF c.exc # "" THEN c
        ELSE [c EXCEPT !.log =
                 _emit(@, inst, "on_response",
                       EventData("on_response", provs[inst].name, c.data.prompt,
                                 c.data.model, c.data.response, EmptyDict))])

ProvOthers == <<stratVars, multiVars, cacheVars, embedVars, knnVars, costVars, provs>>

\* register_event(event_name)(fn) on the global bus, provider.event(event_name)(fn) on
\* the provider's: EventBus.on appends the handler
EventBusOn ==
    /\ pcall.kind = "none"
    /\ \E b \in Buses, e \in EventNames :
          /\ Cardinality({<<b2, e2, i>> \in Buses \X EventNames \X (1..MaxHandlers) :
                              i \in DOMAIN bus[b2][e2]}) < MaxHandlers
          /\ bus' = [bus EXCEPT ![b][e] =
                        Append(@, 1 + Cardinality({<<b2, e2, i>> \in
                                      Buses \X EventNames \X (1..MaxHandlers) :
                                          i \in DOMAIN bus[b2][e2]}))]
    /\ UNCHANGED <<chain, pcall, plog, ProvOthers>>

\* register_middleware(fn) on the global list, provider.middleware(fn) on the provider's
RegisterMiddleware(l) ==
    /\ pcall.kind = "none"
    /\ \E k \in MiddlewareKinds :
          LET n == Cardinality({<<l2, i>> \in Buses \X (1..MaxMiddlewares) :
                                   i \in DOMAIN chain[l2]})
          IN  /\ n < MaxMiddlewares
              /\ chain' = [chain EXCEPT ![l] = Append(@, [id |-> n + 1, kind |-> k])]
    /\ UNCHANGED <<bus, pcall, plog, ProvOthers>>

\* provider.chat(prompt, model=model); ok is whether the backend's API call succeeds.
\* A call leaves nothing behind that a later call reads (it changes neither a bus nor a
\* middleware list), so the one call of a behaviour stands for any call of a sequence.
ChatCall(inst, prompt, model, ok) ==
    /\ pcall.kind = "none"
    /\ provs[inst].exc = ""
    /\ \E c \in {chat(inst, prompt, model, ok)} :
          /\ plog' = c.log
          /\ pcall' = [kind |-> "chat", inst |-> inst,
                       args |-> [prompt |-> prompt, model |-> model],
                       status |-> IF c.exc # "" THEN "raised" ELSE "returned",
                       backendOk |-> ok, chunks |-> <<>>, data |-> c.data,
                       result |-> IF c.exc # "" THEN None ELSE c.data.response,
                       error |-> c.exc]
    /\ UNCHANGED <<bus, chain, ProvOthers>>

\* stream_text as a plain function: the events, the chain and the routing run at the call
StreamCallEager(inst, prompt, model, ok, n) ==
    /\ pcall.kind = "none"
    /\ provs[inst].exc = ""
    /\ pcall' = [kind |-> "stream", inst |-> inst,
                 args |-> [prompt |-> prompt, model |-> model],
                 status |-> "created", backendOk |-> ok,
                 chunks |-> SubSeq(Fragments, 1, n),
                 data |-> MiddlewareData(prompt, provs[inst].name, model, "stream"),
                 result |-> None, error |-> ""]
    /\ plog' = RunRequest(inst, prompt, model, "stream", ok).log
    /\ UNCHANGED <<bus, chain, ProvOthers>>

\* provider.stream_text(prompt, model=model): a generator is created, none of the body
\* runs; n is how many fragments the backend will stream
StreamCall(inst, prompt, model, ok, n) ==
    /\ pcall.kind = "none"
    /\ provs[inst].exc = ""
    /\ pcall' = [kind |-> "stream", inst |-> inst,
                 args |-> [prompt |-> prompt, model |-> model],
                 status |-> "created", backendOk |-> ok,
                 chunks |-> SubSeq(Fragments, 1, n),
                 data |-> MiddlewareData(prompt, provs[inst].name, model, "stream"),
                 result |-> None, error |-> ""]
    /\ plog' = <<>>
    /\ UNCHANGED <<bus, chain, ProvOthers>>

\* one turn of the loop of _wrapped_stream: the next chunk of the backend is announced
\* with on_chunk and yielded, or the backend is exhausted and on_stream_complete is
\* emitted
StreamLoop(log, inst, prompt, model, chunks) ==
    LET name == provs[inst].name
    IN  IF chunks # <<>>
        THEN [status |-> "suspended", chunks |-> Tail(chunks),
              log |-> Append(_emit(log, inst, "on_chunk",
                                   EventData("on_chunk", name, prompt, model, None,
                                             [chunk |-> Head(chunks)])),
                             [kind |-> "yield", chunk |-> Head(chunks)])]
        ELSE [status |-> "exhausted", chunks |-> <<>>,
              log |-> _emit(log, inst, "on_stream_complete",
                            EventData("on_stream_complete", name, prompt, model, None,
                                      EmptyDict))]

\* the first next() on the generator: the body of stream_text runs up to its first
\* yield, or to its end, or raises
GenFirstNext ==
    /\ pcall.status = "created"
    /\ \E c \in {RunRequest(pcall.inst, pcall.data.prompt, pcall.data.model, "stream",
                            pcall.backendOk)} :
       \E l1 \in {Append(c.log, [kind |-> "backend", op |-> "stream",
                                 inst |-> pcall.inst, model |-> c.data.model,
                                 prompt |-> c.data.prompt])} :
          IF c.exc # ""
          THEN /\ pcall' = [pcall EXCEPT !.status = "raised", !.error = c.exc,
                                         !.data = c.data]
               /\ plog' = c.log
          ELSE IF ~pcall.backendOk
          THEN /\ pcall' = [pcall EXCEPT !.status = "raised", !.error = "BackendError",
                                         !.data = c.data]
               /\ plog' = l1
          ELSE \E turn \in {StreamLoop(l1, pcall.inst, c.data.prompt, c.data.model,
                                       pcall.chunks)} :
                  /\ pcall' = [pcall EXCEPT !.status = turn.status,
                                            !.chunks = turn.chunks, !.data = c.data]
                  /\ plog' = turn.log
    /\ UNCHANGED <<bus, chain, ProvOthers>>

\* a later next(): the generator resumes after its yield
GenNext ==
    /\ pcall.status = "suspended"
    /\ \E turn \in {StreamLoop(plog, pcall.inst, pcall.data.prompt, pcall.data.model,
                                 pcall.chunks)} :
          /\ pcall' = [pcall EXCEPT !.status = turn.status, !.chunks = turn.chunks]
          /\ plog' = turn.log
    /\ UNCHANGED <<bus, chain, ProvOthers>>

\* the consumer stops: the generator is closed or dropped where it stands
GenClose ==
    /\ pcall.status \in {"created", "suspended"}
    /\ pcall' = [pcall EXCEPT !.status = "closed"]
    /\ UNCHANGED <<bus, chain, plog, ProvOthers>>

InitProvider ==
    /\ StratIdle
    /\ MultiIdle
    /\ CacheIdle
    /\ EmbedIdle
    /\ KnnIdle
    /\ CostIdle
    /\ ProvIdle

\* middlewares of every kind, no event handlers; calls on either provider, with and
\* without a model argument, whose backend call succeeds or fails
NextProvider ==
    \/ \E l \in Buses : RegisterMiddleware(l)
    \/ \E inst \in Insts, model \in ModelArgs, ok \in BOOLEAN :
          \/ ChatCall(inst, "Hello", model, ok)
          \/ \E n \in 0..Len(Fragments) : StreamCall(inst, "Hello", model, ok, n)
    \/ GenFirstNext
    \/ GenNext
    \/ GenClose

SpecProvider == InitProvider /\ [][NextProvider]_vars

\* event handlers on every bus, no middlewares, calls that reach the backend
NextEvents ==
    \/ EventBusOn
    \/ \E inst \in Insts :
          \/ ChatCall(inst, "Hello", "None", TRUE)
          \/ StreamCall(inst, "Hello", "None", TRUE, Len(Fragments))
    \/ GenFirstNext
    \/ GenNext
    \/ GenClose

SpecEvents == InitProvider /\ [][NextEvents]_vars

\* a smart-routing google Provider and an anthropic Provider with smart routing off,
\* each constructed with every default_model argument; no handlers
InitRouting ==
    /\ StratIdle
    /\ MultiIdle
    /\ CacheIdle
    /\ EmbedIdle
    /\ KnnIdle
    /\ CostIdle
    /\ provs \in [a : {ProviderInit("google", TRUE, d) : d \in DefaultModelArgs},
                  b : {ProviderInit("anthropic", FALSE, d) : d \in DefaultModelArgs}]
    /\ bus = [b \in Buses |-> [e \in EventNames |-> <<>>]]
    /\ chain = [b \in Buses |-> <<>>]
    /\ pcall = NoProvCall
    /\ plog = <<>>

\* global middlewares of every kind, and one call of every kind on either provider,
\* with every model argument
NextRouting ==
    \/ RegisterMiddleware("global")
    \/ \E inst \in Insts, model \in ModelArgs, ok \in BOOLEAN :
          \/ ChatCall(inst, "Hello", model, ok)
          \/ \E n \in 0..Len(Fragments) : StreamCall(inst, "Hello", model, ok, n)
    \/ GenFirstNext
    \/ GenNext
    \/ GenClose

SpecRouting == InitRouting /\ [][NextRouting]_vars

\* a Provider of any catalog provider with smart routing off, so that the call's model
\* argument names the model, whose backend reports any token counts
InitResponse ==
    /\ StratIdle
    /\ MultiIdle
    /\ CacheIdle
    /\ EmbedIdle
    /\ KnnIdle
    /\ CostIdle
    /\ \E n \in ProviderNames, i \in TokenCounts, o \in TokenCounts :
          provs = [ProviderObjs EXCEPT
                      !["a"] = [ProviderInit(n, FALSE, "None") EXCEPT
                                   !._backend.call = [text |-> "Hello!",
                                                      input_tokens |-> i,
                                                      output_tokens |-> o]]]
    /\ bus = [b \in Buses |-> [e \in EventNames |-> <<>>]]
    /\ chain = [b \in Buses |-> <<>>]
    /\ pcall = NoProvCall
    /\ plog = <<>>

\* a chat call for every model of the provider's catalog and for one it does not list
NextResponse ==
    \E model \in ModelsOf(provs["a"].name) \cup {"gpt-5"} : ChatCall("a", "Hello", model, TRUE)

SpecResponse == InitResponse /\ [][NextResponse]_vars

\* a process that streams: from a Provider with its middlewares, or, with no Provider
\* call made, from a MultiProvider; the two share no state
NextStreaming ==
    \/ /\ mpc = "new"
       /\ \/ \E l \in Buses : RegisterMiddleware(l)
          \/ \E inst \in Insts, model \in ModelArgs, ok \in BOOLEAN,
                n \in 0..Len(Fragments) : StreamCall(inst, "Hello", model, ok, n)
          \/ GenFirstNext
          \/ GenNext
          \/ GenClose
    \/ /\ pcall = NoProvCall
       /\ chain = [b \in Buses |-> <<>>]
       /\ \/ ConstructEmpty
          \/ Construct
          \/ StreamText
          \/ GeneratorNext
          \/ CheckStrategy
          \/ RouteNext
          \/ SelectWinner
          \/ BackendInvoke
          \/ BackendFail

SpecStreaming == InitProvider /\ [][NextStreaming]_vars

(***************************************************************************)
(* Properties of Provider.chat and Provider.stream_text, read off the log  *)
(* of the call.                                                            *)
(***************************************************************************)

IsEmit(x) == x.kind = "emit"

\* the names of the events the call emitted, in order
EmittedNames ==
    [i \in 1..Len(SelectSeq(plog, IsEmit)) |-> SelectSeq(plog, IsEmit)[i].data.event]

NeverEmitted(names) == \A i \in 1..Len(EmittedNames) : EmittedNames[i] \notin names

\* where in the log the event of that name was emitted
EmitAt(name) == {i \in 1..Len(plog) : plog[i].kind = "emit" /\ plog[i].data.event = name}

LogAt(kind) == {i \in 1..Len(plog) : plog[i].kind = kind}

\* the chain reached the final handler
ReachedFinal == LogAt("final") # {}

\* C25: in a Provider.chat call whose middleware chain reaches the final handler the
\* events are emitted in the order on_request, on_chat, on_route, on_response, each
\* exactly once, with the backend call between on_route and on_response; on_stream,
\* on_chunk and on_stream_complete are never emitted by chat.
C25_ChatEventOrder ==
    pcall.kind = "chat" =>
        /\ NeverEmitted({"on_stream", "on_chunk", "on_stream_complete"})
        /\ (pcall.status = "returned" /\ ReachedFinal) =>
              /\ EmittedNames = <<"on_request", "on_chat", "on_route", "on_response">>
              /\ Cardinality(LogAt("backend")) = 1
              /\ \A r \in EmitAt("on_route"), b \in LogAt("backend"),
                    e \in EmitAt("on_response") : r < b /\ b < e

\* the middlewares registered for the provider of the call: the global ones, then its own
RegisteredChain == chain["global"] \o chain[pcall.inst]

\* the kinds of the middlewares that ran in the call
EnteredKinds ==
    {RegisteredChain[k].kind :
        k \in {k \in 1..Len(RegisteredChain) :
                  \E i \in LogAt("mw_enter") : plog[i].id = RegisteredChain[k].id}}

\* C26: every Provider.chat call that returns emits on_response exactly once, after the
\* middleware chain has finished, also when a middleware short-circuited the chain; the
\* event's response field is the value chat returns (None if nothing set it).
C26_ResponseEventOnceAfterChain ==
    (pcall.kind = "chat" /\ pcall.status = "returned") =>
        /\ Cardinality(EmitAt("on_response")) = 1
        /\ \A e \in EmitAt("on_response") :
              /\ e = Len(plog)
              /\ plog[e].data.response = pcall.result
        /\ (~ReachedFinal /\ "respond" \notin EnteredKinds) => pcall.result = None

\* chat returned None after a middleware stopped the chain, and on_response was emitted
C26_Witness ==
    /\ pcall.kind = "chat"
    /\ pcall.status = "returned"
    /\ pcall.result = None
    /\ LogAt("mw_enter") # {}
    /\ LogAt("final") = {}
    /\ Cardinality(EmitAt("on_response")) = 1

IsChunkStep(x) == x.kind = "yield" \/ (x.kind = "emit" /\ x.data.event = "on_chunk")

\* the on_chunk events and the yields of the call, in order
ChunkSteps == SelectSeq(plog, IsChunkStep)

\* C27: in a fully consumed Provider.stream_text call whose middleware chain reaches the
\* final handler the events are emitted in the order on_request, on_stream, on_route,
\* then one on_chunk per backend chunk in backend order, each emitted before that chunk
\* is yielded, then on_stream_complete exactly once after the last chunk; on_chat and
\* on_response are never emitted, and on_stream_complete is not emitted if the consumer
\* stops before exhaustion.
C27_StreamEventOrder ==
    pcall.kind = "stream" =>
        /\ NeverEmitted({"on_chat", "on_response"})
        /\ pcall.status # "exhausted" => NeverEmitted({"on_stream_complete"})
        /\ \A k \in 1..Len(ChunkSteps) :
              IF k % 2 = 1
              THEN ChunkSteps[k].kind = "emit"
                       /\ ChunkSteps[k].data.metadata.chunk = Fragments[(k + 1) \div 2]
              ELSE ChunkSteps[k].kind = "yield"
                       /\ ChunkSteps[k].chunk = Fragments[k \div 2]
        /\ (pcall.status = "exhausted" /\ ReachedFinal) =>
              /\ Len(ChunkSteps) % 2 = 0
              /\ EmittedNames =
                    <<"on_request", "on_stream", "on_route">>
                        \o [k \in 1..(Len(ChunkSteps) \div 2) |-> "on_chunk"]
                        \o <<"on_stream_complete">>

\* the handlers an event of that name on that provider is delivered to, in order,
\* each with the bus it is registered on
Registered(inst, name) ==
    [j \in 1..Len(bus["global"][name]) |-> [bus |-> "global", id |-> bus["global"][name][j]]]
        \o [j \in 1..Len(bus[inst][name]) |-> [bus |-> inst, id |-> bus[inst][name][j]]]

\* C28: for every event emitted during a Provider call, each handler registered for that
\* event name runs exactly once, in registration order, the global bus's handlers before
\* the provider's own; handlers registered for other event names or on another Provider
\* do not run, and emitting an event with no handlers is a no-op.
C28_EventDelivery ==
    /\ plog # <<>> => plog[1].kind # "handler"
    /\ \A i \in LogAt("emit") :
          LET to == Registered(plog[i].inst, plog[i].data.event)
          IN  /\ plog[i].inst = pcall.inst
              /\ i + Len(to) <= Len(plog)
              /\ \A j \in 1..Len(to) :
                    plog[i + j] = [kind |-> "handler", bus |-> to[j].bus, id |-> to[j].id,
                                   data |-> plog[i].data]
              /\ i + Len(to) < Len(plog) => plog[i + Len(to) + 1].kind # "handler"

\* a chat call whose on_route event went to a global handler and then to the provider's
\* own one, while a handler for on_route on the other provider did not run
C28_Witness ==
    /\ pcall.kind = "chat"
    /\ pcall.status = "returned"
    /\ Len(bus["global"]["on_route"]) = 1
    /\ Len(bus[pcall.inst]["on_route"]) = 1
    /\ Cardinality(LogAt("handler")) = 2

\* the call's log entries written by the middleware chain: a middleware's code before
\* its next(), the final handler's start, a middleware's code after its next()
ChainLog == SelectSeq(plog, LAMBDA x : x.kind \in {"mw_enter", "final", "mw_exit"})

\* the number of middlewares that have started and not yet returned before entry i
OpenBefore(i) ==
    Cardinality({j \in 1..(i - 1) : ChainLog[j].kind = "mw_enter"})
        - Cardinality({j \in 1..(i - 1) : ChainLog[j].kind = "mw_exit"})

\* y holds the data object as the step that wrote chain entry x leaves it: a middleware
\* writes what its kind says, the final handler sets the model and (in chat) the response
HandsOn(x, y) ==
    LET kindOf == IF x.kind = "mw_enter"
                  THEN RegisteredChain[CHOOSE k \in 1..Len(RegisteredChain) :
                                          RegisteredChain[k].id = x.id].kind
                  ELSE x.kind
    IN  CASE kindOf = "rewrite" ->
                y.data = [x.data EXCEPT !.prompt = "Prove it", !.model = "claude-haiku-4"]
          [] kindOf = "respond" -> y.data = [x.data EXCEPT !.response = CachedResponse]
          [] kindOf = "final" ->
                [y.data EXCEPT !.model = x.data.model, !.response = x.data.response] = x.data
          [] OTHER -> y.data = x.data

\* C29: the middlewares of a call run in list order, the global ones in registration
\* order and then the provider's own in registration order; the final handler runs when
\* the last middleware has called next(); the code after next() runs innermost first;
\* and every middleware and the final handler work on one data object, each seeing what
\* the ones before it wrote.
C29_ChainOrder ==
    /\ \A i \in 1..Len(ChainLog) :
          LET d == OpenBefore(i)
          IN  CASE ChainLog[i].kind = "mw_enter" ->
                      /\ d < Len(RegisteredChain)
                      /\ ChainLog[i].id = RegisteredChain[d + 1].id
                [] ChainLog[i].kind = "final" -> d = Len(RegisteredChain)
                [] ChainLog[i].kind = "mw_exit" ->
                      /\ d >= 1
                      /\ ChainLog[i].id = RegisteredChain[d].id
    /\ \A i \in 1..(Len(ChainLog) - 1) : HandsOn(ChainLog[i], ChainLog[i + 1])
    /\ (/\ pcall.status \in {"returned", "suspended", "exhausted"}
        /\ \A k \in 1..Len(RegisteredChain) : RegisteredChain[k].kind \in {"pass", "rewrite"})
          => [i \in 1..Len(ChainLog) |-> ChainLog[i].kind]
                = [i \in 1..(2 * Len(RegisteredChain) + 1) |->
                      IF i <= Len(RegisteredChain) THEN "mw_enter"
                      ELSE IF i = Len(RegisteredChain) + 1 THEN "final" ELSE "mw_exit"]

\* a call with a global middleware that rewrites the prompt and a provider middleware
\* registered before it: the global one ran first, the final handler got the rewritten
\* prompt, and the provider's middleware returned before the global one
C29_Witness ==
    /\ pcall.kind = "chat"
    /\ pcall.status = "returned"
    /\ Len(chain["global"]) = 1
    /\ Len(chain[pcall.inst]) = 1
    /\ chain["global"][1].kind = "rewrite"
    /\ chain["global"][1].id > chain[pcall.inst][1].id
    /\ Len(ChainLog) = 5
    /\ ChainLog[3].data.prompt = "Prove it"

\* the positions of the call's chain whose middleware returns without calling next()
Stoppers == {k \in 1..Len(RegisteredChain) : RegisteredChain[k].kind \in {"stop", "respond"}}

\* the first of them: every middleware before it calls next(), so it is the one that
\* cuts the chain short
FirstStopper == CHOOSE k \in Stoppers : \A j \in Stoppers : k <= j

\* C30: when a middleware of a chat call returns without calling next(), no later
\* middleware and not the final handler runs, neither the router nor the backend is
\* called, and chat returns what data.response holds: None unless a middleware set it.
C30_ShortCircuit ==
    (pcall.kind = "chat" /\ Stoppers # {}) =>
        /\ pcall.status = "returned"
        /\ \A i \in LogAt("mw_enter") :
              \E k \in 1..FirstStopper : plog[i].id = RegisteredChain[k].id
        /\ \E i \in LogAt("mw_enter") : plog[i].id = RegisteredChain[FirstStopper].id
        /\ LogAt("final") = {}
        /\ LogAt("route") = {}
        /\ LogAt("backend") = {}
        /\ NeverEmitted({"on_route"})
        /\ pcall.result = pcall.data.response
        /\ pcall.result = IF RegisteredChain[FirstStopper].kind = "respond"
                          THEN CachedResponse ELSE None

\* a chat call whose first middleware returns without calling next(): the second one,
\* which would call it, never starts, and chat returns None
C30_Witness ==
    /\ pcall.kind = "chat"
    /\ pcall.status = "returned"
    /\ Len(RegisteredChain) = 2
    /\ RegisteredChain[1].kind = "stop"
    /\ RegisteredChain[2].kind = "pass"
    /\ Cardinality(LogAt("mw_enter")) = 1
    /\ pcall.result = None

\* the model a Provider with smart routing off sends to the backend: the call's model
\* argument, else the constructor's default_model argument, else the fallback model
ExpectedFixedModel(inst) ==
    IF pcall.args.model # "None" THEN pcall.args.model
    ELSE IF provs[inst].default_model # "None" THEN provs[inst].default_model
    ELSE IF provs[inst].name = "anthropic" THEN "claude-sonnet-4-5"
    ELSE IF provs[inst].name = "google" THEN "gemini-3-flash-preview"
    ELSE "gpt-4o"

FixedModelFrom(inst, m) ==
    IF m # "None" THEN m
    ELSE IF provs[inst].default_model # "None" THEN provs[inst].default_model
    ELSE IF provs[inst].name = "anthropic" THEN "claude-sonnet-4-5"
    ELSE IF provs[inst].name = "google" THEN "gemini-3-flash-preview"
    ELSE "gpt-4o"

C32_SavingsAgainstBaseModel ==
    (pcall.kind = "chat" /\ pcall.status = "returned") =>
        LET r    == pcall.result
            base == IF r.provider = "google" THEN "gemini-3-pro-preview"
                    ELSE IF r.provider = "anthropic" THEN "claude-opus-4" ELSE "o3"
        IN  /\ r.model = pcall.args.model
            /\ r.input_tokens = provs[pcall.inst]._backend.call.input_tokens
            /\ r.output_tokens = provs[pcall.inst]._backend.call.output_tokens
            /\ r.base_model = base
            /\ r.base_cost = calculate_cost(r.provider, base, r.input_tokens,
                                            r.output_tokens).value
            /\ r.cost = calculate_cost(r.provider, r.model, r.input_tokens,
                                       r.output_tokens).value
            /\ r.savings = FAdd(r.base_cost, [r.cost EXCEPT !.m = -@])
            /\ (r.input_tokens >= 0 /\ r.output_tokens >= 0) => r.savings.m >= 0

\* a Response for the budget model of openai with tokens on both sides: the savings
\* against o3 are positive
C32_Witness ==
    /\ pcall.kind = "chat"
    /\ pcall.status = "returned"
    /\ pcall.result.model = "gpt-4o-mini"
    /\ pcall.result.input_tokens > 0
    /\ pcall.result.output_tokens > 0
    /\ pcall.result.base_model = "o3"
    /\ pcall.result.savings.m > 0

\* the bytes of the source a successful call was served from
SourceBytes(via) == IF via = "download" THEN PublishedBytes ELSE FallbackBytes

\* C33: after get_router_path succeeds through the remote fetch or through the local
\* fallback, the artifact is present at the cache path with exactly the source's bytes,
\* and the next get_router_path for that provider returns the cache path without
\* downloading or copying again.
C33_CachePopulated ==
    /\ [](\A p \in Callers :
            (caller[p].ret.status = "returned"
                /\ caller[p].ret.via \in {"download", "fallback"}) =>
                /\ fs.dest # 0
                /\ BytesAt(fs, fs.dest) = SourceBytes(caller[p].ret.via))
    /\ [][\A p, q \in Callers :
            (/\ caller[p].ret.status = "returned"
             /\ caller[p].ret.via \in {"download", "fallback"}
             /\ caller[q].pc = "g_exists"
             /\ caller'[q] # caller[q]) =>
                \/ caller'[q].pc = "interrupted"
                \/ /\ caller'[q].ret.status = "returned"
                   /\ caller'[q].ret.via = "cache"
                   /\ caller'[q].ret.view = SourceBytes(caller[p].ret.via)
                   /\ fs' = fs]_vars

\* C34: each KNNRouter.route call computes exactly one embedding of the given query and
\* makes exactly one predict call on the loaded artifact, returning its first label; a
\* failure of either step is raised to the caller immediately, without any retry.
C34_OneEmbeddingOnePredictNoRetry ==
    /\ [](/\ Len(routed) <= Len(embedLog)
          /\ Quiet => embedCalls = constructed.failed + Len(embedLog))
    /\ [][/\ embedLog' # embedLog =>
                \E t \in Threads :
                    /\ thr[t].pc = "e_forward"
                    /\ thr'[t].pc = "r_predict"
                    /\ embedLog' = Append(embedLog, [text |-> thr[t].text,
                                                     vec |-> thr'[t].ret.v])
          /\ routed' # routed => \E t \in Threads : thr[t].pc = "r_predict"
          /\ \A t \in Threads :
                /\ (thr[t].pc = "r_predict" /\ thr'[t] # thr[t]) =>
                      /\ embedLog' = embedLog
                      /\ \/ /\ thr'[t].pc = "done"
                            /\ routed' = Append(routed,
                                  [router |-> thr[t].router, query |-> thr[t].text,
                                   model |-> Predict(routers[thr[t].router]._knn,
                                                     thr[t].ret.v)])
                         \/ /\ thr'[t].pc = "raised"
                            /\ thr'[t].error = "NotFittedError"
                            /\ routed' = routed
                /\ (ThreadActive(t) /\ constructed'.failed > constructed.failed
                      /\ thr'[t] # thr[t]) =>
                      /\ thr'[t].pc = "raised"
                      /\ thr'[t].error = "OSError"
                      /\ embedLog' = embedLog
                      /\ routed' = routed
                /\ (~ThreadActive(t) /\ thr'[t] # thr[t]) => embedCalls' = embedCalls + 1
         ]_vars

\* three route calls on one router: the first failed in from_pretrained, the second
\* returned a label for its one embedding, the third is a call of its own
C34_Witness ==
    /\ Quiet
    /\ embedCalls = 3
    /\ constructed.failed = 1
    /\ Len(embedLog) = 2
    /\ Len(routed) = 2
    /\ routed[1].query = embedLog[1].text
    /\ routed[2].query = embedLog[2].text

\* the one backend call MultiProvider.chat makes for the winner the strategy returned
WinnerCall ==
    [op |-> "call", provider |-> ApplyStrategyFn(mcall.strategy, msel).provider,
     model |-> ApplyStrategyFn(mcall.strategy, msel).model, prompt |-> mcall.prompt]

C36_SmartRoutingRoutesOnce ==
    (pcall.kind # "none" /\ provs[pcall.inst].smart_routing /\ ReachedFinal) =>
        /\ Cardinality(LogAt("route")) = 1
        /\ Cardinality(LogAt("backend")) = 1
        /\ \A r \in LogAt("route") :
              /\ \A f \in LogAt("final") : plog[r].prompt = plog[f].data.prompt
              /\ plog[r].model = RouterRoute(plog[r].prompt)
              /\ \A b \in LogAt("backend") :
                    /\ r < b
                    /\ plog[b].model = plog[r].model
                    /\ plog[b].prompt = plog[r].prompt

\* C37: in any Provider.chat or Provider.stream_text call, the backend (call or stream)
\* is invoked only after on_route has been emitted in that call with the model that is
\* sent to the backend; this also holds when a middleware does not call next().
C37_BackendOnlyAfterRouteEvent ==
    pcall.kind # "none" =>
        \A b \in LogAt("backend") :
            \E r \in EmitAt("on_route") :
                /\ r < b
                /\ plog[r].data.model = plog[b].model

\* C38: in any single Provider.chat call, whatever the registered middlewares do
\* (including calling next() more than once), the router and the backend are each
\* invoked at most once and on_route is emitted at most once.
C38_AtMostOneRouteAndBackend ==
    pcall.kind = "chat" =>
        /\ Cardinality(LogAt("route")) <= 1
        /\ Cardinality(LogAt("backend")) <= 1
        /\ Cardinality(EmitAt("on_route")) <= 1

\* C39: every provider list accepted by the MultiProvider constructor can be routed: chat
\* and stream_text with a valid strategy obtain a model from each provider without
\* failing at the routing step, including for Provider instances created with
\* smart_routing=False (whose router is None).
C39_AcceptedListCanBeRouted ==
    (mcall.kind # "none" /\ mcall.strategy \in STRATEGIES /\ mpc = "raised") =>
        /\ mresult.error # "AttributeError"
        /\ routeLog = ExpectedRoutes
        /\ \A i \in 1..Len(mpProviders) :
              \E j \in 1..Len(msel) : msel[j].provider = mpProviders[i]

\* C40: streaming is lazy: calling Provider.stream_text or MultiProvider.stream_text and
\* never iterating the result emits no event, runs no middleware, performs no routing and
\* no backend call, and raises no error; the unknown-strategy and empty-model errors
\* surface only at the first iteration.
C40_StreamingIsLazy ==
    /\ [](/\ (pcall.kind = "stream"
                /\ (pcall.status = "created" \/ (pcall.status = "closed" /\ plog = <<>>))) =>
                /\ plog = <<>>
                /\ pcall.error = ""
                /\ pcall.data = MiddlewareData(pcall.args.prompt, provs[pcall.inst].name,
                                               pcall.args.model, "stream")
          /\ (pcall.kind = "stream" /\ ~provs[pcall.inst].smart_routing
                /\ \E f \in LogAt("final") : plog[f].data.model = "") =>
                /\ pcall.status = "raised"
                /\ pcall.error = "ValueError"
          /\ (mcall.kind = "stream" /\ mpc = "generator") =>
                /\ routeLog = <<>>
                /\ backendLog = <<>>
                /\ msel = <<>>
                /\ mresult = NoOutcome
          /\ (mcall.kind = "stream" /\ mcall.strategy \notin STRATEGIES
                /\ mpc \notin {"generator", "check"}) =>
                /\ mpc = "raised"
                /\ mresult = Raised("ValueError"))
    /\ [][/\ (pcall.kind = "none" /\ pcall'.kind = "stream") =>
                (pcall'.status = "created" /\ plog' = <<>>)
          /\ (pcall.status = "created" /\ pcall'.status = "closed") => plog' = <<>>
          /\ (pcall'.kind = "stream" /\ pcall.error = "" /\ pcall'.error # "") =>
                (pcall.kind = "stream" /\ pcall.status = "created")
          /\ (mcall.kind = "none" /\ mcall'.kind = "stream") =>
                (mpc' = "generator" /\ mresult' = NoOutcome)
          /\ (mcall.kind = "stream" /\ mresult.status # "raised"
                /\ mresult'.status = "raised") =>
                mpc \in {"check", "route", "select", "backend"}
         ]_vars

\* a stream_text call with an empty model on the provider without smart routing, behind
\* a middleware, was closed without being iterated: nothing ran and nothing was raised
C40_Witness ==
    /\ pcall.kind = "stream"
    /\ pcall.status = "closed"
    /\ pcall.args.model = ""
    /\ ~provs[pcall.inst].smart_routing
    /\ Len(ChainOf(pcall.inst)) = 1
    /\ plog = <<>>
    /\ pcall.error = ""

====
